------------------------- MODULE MCDocumentExtraction -------------------------
(***************************************************************************)
(* A small instance of DocumentExtraction for TLC.                         *)
(***************************************************************************)
EXTENDS DocumentExtraction

CONSTANTS first, second, third, tiny

\* One document in three formats, one of them twice, and another in a format that nothing reads.
MCName == {"a.pdf", "A.pdf", "a.hwpx", "a.png", "b.hwp"}

MCStemOf == [n \in MCName |-> IF n = "b.hwp" THEN "b" ELSE "a"]

MCTypeOf == [n \in MCName |->
                CASE n \in {"a.pdf", "A.pdf"} -> "pdf"
                  [] n = "a.hwpx" -> "hwpx"
                  [] n = "a.png"  -> "image"
                  [] n = "b.hwp"  -> "hwp"]

MCUrl == {"w", "x", "y", "z"}

File(type, pages) == [type |-> type, pages |-> pages]

\* A PDF with a text page and a scan, one with text, two HWPX documents, a
\* picture, and what is none of them.
Mixed == File("pdf", <<first, NoText>>)
Plain == File("pdf", <<third>>)
Hwpx  == File("hwpx", <<second>>)
Blank == File("hwpx", <<tiny>>)
Photo == File("image", <<NoText>>)
Error == File("other", <<>>)

MCContent == {Mixed, Plain, Hwpx, Blank, Photo, Error}

\* The site may answer differently each time.
MCServes == [w |-> {Mixed, Plain},
             x |-> {Mixed, Plain, Error},
             y |-> {Hwpx, Blank},
             z |-> {Photo, Error}]

\* The three formats; a name that occurs twice, around another document; two
\* links to one file; two files of one format; a notice without attachments.
At(name, url) == [name |-> name, url |-> url]

MCListing == {<<At("a.pdf", "x"), At("a.hwpx", "y"), At("a.png", "z")>>,
              <<At("a.png", "z"), At("a.pdf", "x"), At("b.hwp", "y"), At("a.pdf", "w")>>,
              <<At("a.pdf", "x"), At("a.pdf", "x")>>,
              <<At("a.pdf", "x"), At("A.pdf", "w")>>,
              <<>>}

MCText == {first, second, third, tiny}

MCDocument == UNION {[1..n -> MCText] : n \in 1..2}

\* The second is similar to the others, which are not similar to each other;
\* the first pages decide.
MCAgree ==
    {p \in MCDocument \X MCDocument :
        LET d == p[1][1] e == p[2][1] IN d = e \/ second \in {d, e}}
===============================================================================
