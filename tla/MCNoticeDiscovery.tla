-------------------------- MODULE MCNoticeDiscovery --------------------------
(***************************************************************************)
(* Small instances of NoticeDiscovery for TLC.                             *)
(***************************************************************************)
EXTENDS NoticeDiscovery

CONSTANTS u1, u2, u3

\* Three notices, each under one URL, which serves as its key.
MCKeyOf == [u \in Url |-> u]

\* Two boards; the second list is what they show when u1 is on both, before
\* the adapter drops its second occurrence.
MCListing == {<<u1, u2, u3>>, <<u1, u2, u1, u3>>}

==============================================================================
