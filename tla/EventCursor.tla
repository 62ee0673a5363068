----------------------------- MODULE EventCursor -----------------------------
(***************************************************************************)
(* Reading a stream of events by cursors (EventCursorReader of             *)
(* kernel/recovery.py, which reconcile_notifications of the decisions      *)
(* calls).  The cursor is with the reader: it says how far the reader got, *)
(* which event was the last, and how long the stream was.  A store that is *)
(* restored from an older snapshot takes its cursors too, and must notice  *)
(* that they are from another past.                                        *)
(*                                                                         *)
(* A page is several statements on the connection all threads share: the   *)
(* check of the cursor, the watermark, the rows.  They see what a          *)
(* transaction under way has appended, and other threads append, commit    *)
(* and roll back between them.  Ids of events are random and never come    *)
(* again.  Streams have no gaps (CommandStore), so the status gap does not *)
(* occur; expiry refuses a cursor at any time, which is a reader who makes *)
(* no step.                                                                *)
(***************************************************************************)
EXTENDS Integers, Sequences, SequencesExt

CONSTANTS Readers,
          Limit,      \* events per page
          MaxEvents   \* bound on the events ever appended

ASSUME CursorAssumption == {Limit, MaxEvents} \subseteq Nat \ {0}

VARIABLES stream,  \* the committed events
          tail,    \* those of the transaction under way
          spent,   \* how many ids were given
          kept,    \* the stream in the snapshot on disk
          cursor,  \* the cursor of each reader
          page,    \* how far each reader is in a page
          astray   \* history: readers whose place changed under the page they read

cursorVars == <<stream, tail, spent, kept, cursor, page, astray>>

(* shown: the filter of the reader admits the event. *)
Event == [id : 1 .. MaxEvents, shown : BOOLEAN]

NoEvent == 0

(* given is history: the events along this cursor, by position and id. *)
Start == [after |-> 0, last |-> NoEvent, watermark |-> 0, given |-> <<>>]

Present == stream \o tail

(* What a page knows: the event at the cursor's place, and the watermark. *)
NoPage == [step |-> "idle", seen |-> NoEvent, watermark |-> 0]

(* The event at the place of a cursor, if there is one. *)
Place(c) == IF c.after \in DOMAIN Present THEN Present[c.after].id ELSE NoEvent

(* The positions of the events to be shown. *)
Shown(from, to) == {i \in (from .. to) \cap DOMAIN Present : Present[i].shown}

Ascending(places) == \A i, j \in DOMAIN places : i < j => places[i] < places[j]

(* The rows the query selects behind a position up to the watermark: the first
   Limit of them. *)
IsPage(rows, after, watermark) ==
    /\ Ascending(rows)
    /\ ToSet(rows) \subseteq Shown(after + 1, watermark)
    /\ \A i \in Shown(after + 1, watermark) \ ToSet(rows) : Len(rows) = Limit /\ Last(rows) < i

Events(rows) == [i \in DOMAIN rows |-> [at |-> rows[i], id |-> Present[rows[i]].id]]

CursorInit ==
    /\ stream = <<>>
    /\ tail = <<>>
    /\ spent = 0
    /\ kept = <<>>
    /\ cursor = [r \in Readers |-> Start]
    /\ page = [r \in Readers |-> NoPage]
    /\ astray = {}

AppendToStream(shown) ==
    /\ spent < MaxEvents
    /\ spent' = spent + 1
    /\ tail' = Append(tail, [id |-> spent + 1, shown |-> shown])
    /\ UNCHANGED <<stream, kept, cursor, page, astray>>

(* The transaction commits, or is rolled back. *)
EndTransaction ==
    /\ tail # <<>>
    /\ stream' \in {stream, Present}
    /\ tail' = <<>>
    /\ UNCHANGED <<spent, kept, cursor, page, astray>>

KeepSnapshot ==
    /\ tail = <<>>
    /\ kept' = stream
    /\ UNCHANGED <<stream, tail, spent, cursor, page, astray>>

(* The snapshot takes the place of the store; pages under way end with it. *)
RestoreStream ==
    /\ stream' = kept
    /\ tail' = <<>>
    /\ page' = [r \in Readers |-> NoPage]
    /\ UNCHANGED <<spent, kept, cursor, astray>>

(* Mutant of Admits: the position is enough. *)
AdmitsPosition(c) == c.watermark >= c.after

(* _decode_cursor, and the first statement of page: where the reader stopped
   there is the event it was given last, or none yet. *)
Admits(c) ==
    /\ c.watermark >= c.after
    /\ c.last # NoEvent /\ c.after <= Len(Present) => Present[c.after].id = c.last

OpenPage(r) ==
    /\ page[r].step = "idle"
    /\ Admits(cursor[r])
    /\ page' = [page EXCEPT ![r] = [step |-> "checked", seen |-> Place(cursor[r]), watermark |-> 0]]
    /\ UNCHANGED <<stream, tail, spent, kept, cursor, astray>>

(* The second statement: how long the stream is. *)
Measure(r) ==
    /\ page[r].step = "checked"
    /\ page' = [page EXCEPT ![r].step = "measured", ![r].watermark = Len(Present)]
    /\ UNCHANGED <<stream, tail, spent, kept, cursor, astray>>

(* The cursor behind a page of these rows that was read from c. *)
Behind(c, rows, watermark) ==
    [after     |-> IF rows = <<>> THEN c.after ELSE Last(rows),
     last      |-> IF rows = <<>> THEN c.last ELSE Present[Last(rows)].id,
     watermark |-> watermark,
     given     |-> c.given \o Events(rows)]

(* The rows, and the cursor behind them.  An answer that is lost, or a cursor that
   is presented again, is a page that was not read. *)
ReadPage(r) ==
    /\ page[r].step = "measured"
    /\ \E rows \in SeqOf(DOMAIN Present, Limit) :
          /\ IsPage(rows, cursor[r].after, page[r].watermark)
          /\ cursor' = [cursor EXCEPT ![r] = Behind(cursor[r], rows, page[r].watermark)]
          /\ astray' = IF rows # <<>> /\ Place(cursor[r]) # page[r].seen
                       THEN astray \cup {r} ELSE astray
    /\ page' = [page EXCEPT ![r] = NoPage]
    /\ UNCHANGED <<stream, tail, spent, kept>>

(* A page that fails, or whose answer is not used. *)
LosePage(r) ==
    /\ page[r].step # "idle"
    /\ page' = [page EXCEPT ![r] = NoPage]
    /\ UNCHANGED <<stream, tail, spent, kept, cursor, astray>>

(* A reader that was refused, or lost its cursor, begins anew. *)
Restart(r) ==
    /\ page[r].step = "idle"
    /\ cursor' = [cursor EXCEPT ![r] = Start]
    /\ astray' = astray \ {r}
    /\ UNCHANGED <<stream, tail, spent, kept, page>>

CursorNext ==
    \/ \E shown \in BOOLEAN : AppendToStream(shown)
    \/ EndTransaction
    \/ KeepSnapshot
    \/ RestoreStream
    \/ \E r \in Readers : OpenPage(r) \/ Measure(r) \/ ReadPage(r) \/ LosePage(r) \/ Restart(r)

CursorSpec == CursorInit /\ [][CursorNext]_cursorVars
-----------------------------------------------------------------------------

Followed(c) ==
    LET places == [i \in DOMAIN c.given |-> c.given[i].at]
    IN  Ascending(places) /\ ToSet(places) = Shown(1, c.after) /\ c.given = Events(places)

(* A reader whose cursor is taken was given the events up to it that concern it,
   each once, in order, and none but these: across pages, appends, commits and
   roll-backs between the statements of a page, and restored stores.  Only a
   reader who was given rows although the event at its place went or came
   between the check and the rows may have gone astray. *)
CursorsFollow ==
    \A r \in Readers \ astray :
        Admits(cursor[r]) /\ cursor[r].after <= Len(Present) => Followed(cursor[r])

(* The same of every reader: page does not promise it, for the cursor is checked
   by a statement of its own. *)
EveryCursorFollows ==
    \A r \in Readers :
        Admits(cursor[r]) /\ cursor[r].after <= Len(Present) => Followed(cursor[r])
=============================================================================
