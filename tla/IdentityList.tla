---------------------------- MODULE IdentityList ----------------------------
(***************************************************************************)
(* Service.ListIdentityServers (identity_objects.go): an inventory read    *)
(* page by page, each page one control on the connection the service has   *)
(* at that moment, while others attach, revoke and restore the objects.    *)
(* The control is Client.Request: its answer is the next message of the    *)
(* response type on the connection, or the next Error.                     *)
(***************************************************************************)
EXTENDS Naturals, Sequences, FiniteSets, SequencesExt

CONSTANTS N,           \* objects that may come to exist, named by their IDs
          PageSize,    \* 100 in the code
          MaxPages,    \* 10 in the code
          MaxListings, \* bounds: listings, one after the other,
          MaxChanges,  \* changes of the inventory,
          MaxFaults    \* and answers that refuse, Errors, lost connections

ASSUME ListAssumption ==
  /\ N \in Nat /\ {PageSize, MaxPages} \subseteq Nat \ {0}
  /\ {MaxListings, MaxChanges, MaxFaults} \subseteq Nat

Ids == 1..N       \* in the order of the server; 0 stands for After = ""

VARIABLES
  inventory,      \* [Ids -> "absent", "active" or "revoked"], at the server
  conn, up,       \* the connection of the service, and whether it is open
  asked, answers, \* requests and answers on their way on it
  stage,          \* where ListIdentityServers is, or how it ended
  using,          \* the connection it got from connection()
  page, after, out,
  lasting, shown, \* objects active ever since it began, and at some time
  leftover,       \* whether an earlier answer was still due when it began
  listings, changes, faults

serverVars == <<inventory, changes>>
listVars == <<inventory, conn, up, asked, answers, stage, using, page, after, out,
              lasting, shown, leftover, listings, changes, faults>>

Active == {i \in Ids : inventory[i] = "active"}
Returned == {"idle", "listed", "failed", "exceeded"}

ListStart(objects) ==
  /\ inventory = objects
  /\ conn = 0 /\ up = TRUE /\ asked = <<>> /\ answers = <<>>
  /\ stage = "idle" /\ using = 0 /\ page = 0 /\ after = 0 /\ out = <<>>
  /\ lasting = {} /\ shown = {} /\ leftover = FALSE
  /\ listings = 0 /\ changes = 0 /\ faults = 0

ListInit == \E objects \in [Ids -> {"absent", "active", "revoked"}] : ListStart(objects)

-----------------------------------------------------------------------------
(* The listing. *)

BeginListing ==
  /\ stage \in Returned /\ listings < MaxListings
  /\ stage' = "connecting" /\ listings' = listings + 1
  /\ page' = 0 /\ after' = 0 /\ out' = <<>>
  /\ lasting' = Active /\ shown' = Active
  /\ leftover' = (asked # <<>> \/ \E k \in DOMAIN answers : answers[k].kind = "page")
  /\ UNCHANGED <<serverVars, conn, up, asked, answers, using, faults>>

\* Service.connection.
Connection ==
  /\ stage = "connecting"
  /\ using' = conn /\ stage' = "connected"
  /\ UNCHANGED <<serverVars, conn, up, asked, answers, page, after, out,
                 lasting, shown, leftover, listings, faults>>

\* Client.IdentityObjects on that connection, which may be gone by now.
Request ==
  /\ stage = "connected"
  /\ IF up /\ using = conn
     THEN stage' = "awaiting" /\ asked' = Append(asked, after)
     ELSE stage' = "failed" /\ UNCHANGED asked
  /\ UNCHANGED <<serverVars, conn, up, answers, using, page, after, out,
                 lasting, shown, leftover, listings, faults>>

\* A set of numbers, from the smallest to the largest.
UpTo(S, i) == {j \in S : j <= i}
InOrder(S) == [k \in 1..Cardinality(S) |-> CHOOSE i \in S : Cardinality(UpTo(S, i)) = k]

\* Mutant of Unrevoked: nothing is left out.
UnrevokedAll(batch) == [n \in 1..Len(batch) |-> batch[n].id]

ActiveAt(batch) == {k \in DOMAIN batch : ~batch[k].revoked}
Unrevoked(batch) == [n \in 1..Cardinality(ActiveAt(batch)) |-> batch[InOrder(ActiveAt(batch))[n]].id]

\* One turn of the loop: keep what is active of the batch, and stop behind a
\* batch that is not full.
TakeBatch(batch, length, next) ==
  /\ out' = out \o Unrevoked(batch)
  /\ IF length < PageSize
     THEN stage' = "listed" /\ UNCHANGED <<page, after>>
     ELSE IF next = after
     THEN stage' = "failed" /\ UNCHANGED <<page, after>>
     ELSE /\ after' = next /\ page' = page + 1
          /\ stage' = IF page + 1 < MaxPages THEN "connecting" ELSE "exceeded"

\* Mutant of TakePage: the length is that of what is left of the batch.
TakePageFiltered(batch) == TakeBatch(batch, Len(Unrevoked(batch)), Last(batch).id)

\* Mutant of TakePage: the cursor is the first object of the batch.
TakePageFirst(batch) == TakeBatch(batch, Len(batch), Head(batch).id)

TakePage(batch) == TakeBatch(batch, Len(batch), Last(batch).id)

\* The answer fails the control (an Error), cannot be read or refuses, or names
\* an object of somebody else.
FailListing == stage' = "failed" /\ UNCHANGED <<page, after, out>>

\* readLoop hands the next message to the control under way; without one it is
\* an event nobody listens for.
ReceivePage ==
  /\ answers # <<>> /\ answers' = Tail(answers)
  /\ IF stage # "awaiting" THEN UNCHANGED <<stage, page, after, out>>
     ELSE IF Head(answers).kind = "page" THEN TakePage(Head(answers).objects)
     ELSE FailListing
  /\ UNCHANGED <<serverVars, conn, up, asked, using, lasting, shown, leftover, listings, faults>>

\* The connection ends, also because the context of a control did
\* (Client.request), and the control on it with it.
LoseConnection ==
  /\ up /\ faults < MaxFaults
  /\ up' = FALSE /\ asked' = <<>> /\ answers' = <<>> /\ faults' = faults + 1
  /\ stage' = IF stage = "awaiting" THEN "failed" ELSE stage
  /\ UNCHANGED <<serverVars, conn, using, page, after, out, lasting, shown, leftover, listings>>

\* RunPersistent publishes the next connection.
ReplaceConnection ==
  /\ ~up /\ up' = TRUE /\ conn' = conn + 1
  /\ UNCHANGED <<serverVars, asked, answers, stage, using, page, after, out,
                 lasting, shown, leftover, listings, faults>>

-----------------------------------------------------------------------------
(* The server. *)

Existing == {i \in Ids : inventory[i] # "absent"}
Behind(cursor) == {i \in Existing : i > cursor}

\* One page: the first objects behind the cursor, those revoked among them.
Page(cursor) ==
  LET ids == InOrder(Behind(cursor))
      length == Cardinality(Behind(cursor))
  IN [k \in 1..(IF length < PageSize THEN length ELSE PageSize) |->
        [id |-> ids[k], revoked |-> inventory[ids[k]] = "revoked"]]

Reply(kind, objects) == answers' = Append(answers, [kind |-> kind, objects |-> objects])

ServePage ==
  /\ asked # <<>> /\ asked' = Tail(asked)
  /\ Reply("page", Page(Head(asked)))
  /\ UNCHANGED <<serverVars, conn, up, stage, using, page, after, out,
                 lasting, shown, leftover, listings, faults>>

RefusePage ==
  /\ asked # <<>> /\ asked' = Tail(asked)
  /\ faults < MaxFaults /\ faults' = faults + 1
  /\ Reply("refusal", <<>>)
  /\ UNCHANGED <<serverVars, conn, up, stage, using, page, after, out,
                 lasting, shown, leftover, listings>>

\* An Error for another request on this connection.
ServeError ==
  /\ up /\ faults < MaxFaults /\ faults' = faults + 1
  /\ Reply("Error", <<>>)
  /\ UNCHANGED <<serverVars, conn, up, asked, stage, using, page, after, out,
                 lasting, shown, leftover, listings>>

Change(i, from, to) ==
  /\ inventory[i] = from /\ inventory' = [inventory EXCEPT ![i] = to]
  /\ changes < MaxChanges /\ changes' = changes + 1
  /\ lasting' = IF to = "active" THEN lasting ELSE lasting \ {i}
  /\ shown' = IF to = "active" THEN shown \cup {i} ELSE shown
  /\ UNCHANGED <<conn, up, asked, answers, stage, using, page, after, out,
                 leftover, listings, faults>>

AttachServer(i) == Change(i, "absent", "active")
Revoke(i) == Change(i, "active", "revoked")
Restore(i) == Change(i, "revoked", "active")

ListNext ==
  \/ BeginListing \/ Connection \/ Request \/ ReceivePage
  \/ LoseConnection \/ ReplaceConnection
  \/ ServePage \/ RefusePage \/ ServeError
  \/ \E i \in Ids : AttachServer(i) \/ Revoke(i) \/ Restore(i)

ListSpec == ListInit /\ [][ListNext]_listVars

-----------------------------------------------------------------------------
(* Properties. *)

\* A caller never receives a silently truncated inventory
\* (identity_objects.go:51-52): whatever was active while the listing ran is in it.
NeverTruncated == stage = "listed" => lasting \subseteq Range(out)

\* Whatever happens to other objects and to the connection between two pages, a
\* listing that starts with no earlier answer still due is not truncated.
FreshIsComplete == ~leftover => NeverTruncated

\* Nothing is listed that was not active at some time during the listing,
\* though each page is of another time.
FreshIsActive == ~leftover => Range(out) \subseteq shown

\* No object is listed twice, wherever objects are attached between two pages.
FreshListsOnce == ~leftover /\ stage = "listed" => IsInjective(out)

\* The limit is reported only to a service with that many objects, of which
\* those revoked count too.
LimitIsReal == ~leftover /\ stage = "exceeded" => Cardinality(Existing) >= PageSize * MaxPages

\* A listing that finds no leftover answer returns every object that stayed active,
\* none that never was, each once, or reports a limit that the service does reach
\* (identity_objects.go:53-80).
FreshIsRight == FreshIsComplete /\ FreshIsActive /\ FreshListsOnce /\ LimitIsReal
=============================================================================
