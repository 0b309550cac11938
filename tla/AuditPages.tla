----------------------------- MODULE AuditPages -----------------------------
(***************************************************************************)
(* GET /audit/:accountId: a client walks through the audit log of its      *)
(* account page by page, each cut by the id that the last one returned,    *)
(* while requests go on to append rows. created_at is the start of the     *)
(* transaction that writes the row, so a row can appear behind newer ones. *)
(***************************************************************************)
EXTENDS Integers, FiniteSets, SequencesExt

CONSTANTS
  Ids,      \* the uuids that can be generated, in the order of their comparison
  MaxTime,  \* bound: the moments at which transactions start
  Limits,   \* what clients give as ?limit
  Cap       \* the largest page (200)

ASSUME PageAssumption ==
  Ids \subseteq Nat \ {0} /\ MaxTime \in Nat /\ Limits \subseteq Int /\ Cap \in Nat \ {0}

VARIABLES
  rows,  \* the committed audit_logs rows of the account
  open,  \* rows of transactions that have not committed
  now,   \* the clock of the database
  walk   \* the client's walk: its ?limit, the cursor of the next page (0 for the
         \* first and after the last), the rows that were there when it began,
         \* how often each id was shown (2: more than once), whether it goes on

vars == <<rows, open, now, walk>>

-----------------------------------------------------------------------------
(* The log grows *)

Elapse == now < MaxTime /\ now' = now + 1 /\ UNCHANGED <<rows, open, walk>>

\* A transaction that will write a row begins; defaultRandom() gives any new id.
Begin(id) ==
  /\ \A r \in rows \cup open : r.id # id
  /\ open' = open \cup {[id |-> id, at |-> now]}
  /\ UNCHANGED <<rows, now, walk>>

\* It commits, or rolls back.
End(r) ==
  /\ r \in open /\ open' = open \ {r}
  /\ rows' = rows \cup {r} \/ rows' = rows
  /\ UNCHANGED <<now, walk>>

-----------------------------------------------------------------------------
(* The query *)

SafeLimit(limit) == Min({Max({1, limit}), Cap})

\* Mutated form: lte instead of lt.
MatchingUpTo(cursor) == {r \in rows : cursor # 0 => r.id <= cursor}

\* The WHERE clause.
Matching(cursor) == {r \in rows : cursor # 0 => r.id < cursor}

\* ORDER BY created_at DESC LIMIT n + 1; rows of one moment come in any order.
Results(cursor, n) ==
  {SubSeq(q, 1, Min({Len(q), n + 1})) :
     q \in {s \in SetToSeqs(Matching(cursor)) :
              \A i, j \in DOMAIN s : i < j => s[i].at >= s[j].at}}

\* Mutated form: the cursor is the extra row.
NextCursorExtra(found, n) == IF Len(found) > n /\ n > 0 THEN found[n + 1].id ELSE 0

\* The id of the page's last row if there is an extra one, null (0) if not.
NextCursor(found, n) == IF Len(found) > n /\ n > 0 THEN found[n].id ELSE 0

-----------------------------------------------------------------------------
(* The walk *)

NothingShown == [id \in Ids |-> 0]

StartWalk(limit) ==
  /\ ~walk.more
  /\ walk' = [limit |-> limit, cursor |-> 0, there |-> {r.id : r \in rows},
              shown |-> NothingShown, more |-> TRUE]
  /\ UNCHANGED <<rows, open, now>>

\* getLogsForAccount, and the client that takes the next cursor from the answer.
GetLogs ==
  /\ walk.more
  /\ LET n == SafeLimit(walk.limit) IN
     \E found \in Results(walk.cursor, n) :
       LET page == {found[i].id : i \in 1 .. Min({Len(found), n})} IN
       walk' = [walk EXCEPT
                  !.shown = [id \in Ids |-> IF id \in page THEN Min({2, @[id] + 1})
                                            ELSE @[id]],
                  !.cursor = NextCursor(found, n),
                  !.more = NextCursor(found, n) # 0]
  /\ UNCHANGED <<rows, open, now>>

-----------------------------------------------------------------------------
(* The specification *)

Init ==
  /\ rows = {} /\ open = {} /\ now = 0
  /\ walk = [limit |-> 1, cursor |-> 0, there |-> {},
             shown |-> NothingShown, more |-> FALSE]

Next ==
  \/ Elapse \/ GetLogs
  \/ \E id \in Ids : Begin(id)
  \/ \E r \in open : End(r)
  \/ \E limit \in Limits : StartWalk(limit)

Spec == Init /\ [][Next]_vars

\* A client that has a cursor asks for the next page.
FairSpec == Spec /\ WF_vars(GetLogs)

-----------------------------------------------------------------------------
(* Properties *)

\* A walk ends, whatever is appended meanwhile: no cursor leads back to a page
\* that was shown before.
WalkEnds == walk.more ~> ~walk.more

\* Some row that is not older has a lower id: a page cut there leaves r behind.
Overtaken(r) == \E k \in rows : k.id < r.id /\ k.at >= r.at

\* Some row that is not newer has a higher id: a page cut there does not end with r.
Undercut(r) == \E k \in rows : k.id > r.id /\ k.at <= r.at

\* Pages are cut by a random id and ordered by time alone, so a walk skips and
\* repeats rows. It skips only a row that is overtaken and repeats only one that is
\* undercut: each other row that was there when the walk began is shown once,
\* wherever the rest of the log is out of order, for any limit and whatever commits
\* late meanwhile.
OnceUnlessInverted ==
  ~walk.more =>
    \A r \in rows : r.id \in walk.there =>
      /\ walk.shown[r.id] = 0 => Overtaken(r)
      /\ walk.shown[r.id] > 1 => Undercut(r)

\* A next cursor is lower than the cursor it was got with, in whatever order ids
\* and times come: no walk can go in a circle.
CursorDescends ==
  [][walk.more /\ walk'.more /\ walk.cursor # 0 /\ walk' # walk
       => walk'.cursor < walk.cursor]_vars
=============================================================================
