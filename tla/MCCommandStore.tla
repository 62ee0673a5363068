--------------------------- MODULE MCCommandStore ---------------------------
(* Instances of CommandStore for TLC. *)
EXTENDS CommandStore

CONSTANTS t1, t2, i1, i2, k1, k2, k3, e1, s1, s2, pay1, pay2, tok1, d1, d2, d3

Command(id, pin, expRev, expVer, tok, pay, dom) ==
    [id |-> id, pin |-> pin, expRev |-> expRev, expVer |-> expVer,
     tok |-> tok, pay |-> pay, dom |-> dom]

State(rev, ver, tok, pay) ==
    [admitted |-> TRUE, rev |-> rev, ver |-> ver, tok |-> tok, pay |-> pay]

(* Commands that create an identity, that expect the revision, the version and
   the edit token of one, and that expect nothing. *)
CommandRequests ==
    {Command(i1, NoRevision, NoRevision, 0, NoToken, pay1, Core),
     Command(i1, -1, -1, 1, tok1, pay1, Core),
     Command(i2, NoRevision, NoRevision, NoVersion, NoToken, pay1, Core)}

(* The states domains put identities in: unpinned at version 0, and an opaque
   revision with an edit token at version 1. *)
CommandRows == {State(NoRevision, 0, NoToken, pay1), State(-1, 1, tok1, pay1)}

(* Commands that pin a revision, one of them of a domain to be registered in the run,
   and one that expects nothing. *)
DomainRequests ==
    {Command(i1, 1, NoRevision, NoVersion, NoToken, pay1, d1),
     Command(i1, 2, 2, 2, NoToken, pay2, Core),
     Command(i1, 1, NoRevision, NoVersion, NoToken, pay2, Core),
     Command(i1, NoRevision, NoRevision, NoVersion, NoToken, pay1, Core)}

DomainCollisions == {<<d1, d2>>}

(* Two commands that pin a revision, and one that expects nothing. *)
PinRequests ==
    {Command(i1, 1, NoRevision, NoVersion, NoToken, pay1, Core),
     Command(i1, 1, NoRevision, NoVersion, NoToken, pay2, Core),
     Command(i1, 2, 2, 2, NoToken, pay2, Core),
     Command(i1, NoRevision, NoRevision, NoVersion, NoToken, pay1, Core)}

PinRows == {State(NoRevision, 0, NoToken, pay1), State(1, 1, NoToken, pay1)}

NoPairs   == {}
OtherRefs == {{<<i2, 1>>}}
RevOne    == {1}
=============================================================================
