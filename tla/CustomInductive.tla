--------------------------- MODULE CustomInductive ---------------------------
(***************************************************************************)
(* The inductive invariants of Custom.  Of the registries: whose schema is  *)
(* whose, and what a registry has done of the registration it is in.  Of a *)
(* payload: where its fields are in what is left of it.                    *)
(***************************************************************************)
EXTENDS Custom, WireInductive

RegistryTypeOK ==
  /\ call \in [Registries -> {"idle", "checked", "stored", "deleted"}]
  /\ on \in [Registries -> MsgTypes \cup {0}]
  /\ mine \in [Registries -> 0..begun]
  /\ schemas \in [Registries -> [MsgTypes -> 0..begun]]
  /\ table \in [MsgTypes -> 0..begun]
  /\ begun \in 0..MaxRegistrations /\ disturbed \subseteq MsgTypes

\* Where a registry is between two steps of Register or Unregister.
StepInv ==
  \A r \in Registries :
    /\ call[r] # "idle" => on[r] \in MsgTypes
    /\ call[r] = "stored" => schemas[r][on[r]] = mine[r]
    /\ call[r] = "deleted" => schemas[r][on[r]] = 0

\* A schema belongs to the registry that was given it, and to no other.
OwnInv ==
  \A r, q \in Registries : r # q =>
    /\ mine[r] # 0 => mine[r] # mine[q] /\ \A u \in MsgTypes : schemas[q][u] # mine[r]
    /\ \A t, u \in MsgTypes : schemas[r][t] # 0 => schemas[r][t] # schemas[q][u]

RegistryInv == RegistryTypeOK /\ StepInv /\ OwnInv /\ TablesAgree

-----------------------------------------------------------------------------

PayloadTypeOK ==
  /\ schema \in Seq([kind : Kinds, required : BOOLEAN])
  /\ fields \in [1..Len(schema) -> GoValues \cup {Absent}]
  /\ phase \in {"marshaling", "refused", "reading", "read", "failed"}
  /\ payload \in Seq(Nat) /\ ends \in Seq(Nat) /\ arrived \in Nat
  /\ result \in Seq([go : Kinds, bytes : Seq(Nat)])
  /\ Len(ends) <= Len(schema) /\ Len(result) <= Len(schema)

\* The bytes of the value of field i as they are written, and their coding.
Value(i) == Converted(schema[i].kind, Filled(i))
Code(i) == Coding(schema[i].kind)

End(i) == IF i = 0 THEN 0 ELSE ends[i]

\* The fields written stand one behind the other, up to the first that cannot be.
WrittenInv ==
  /\ \A i \in 1..Len(ends) : Writable(i) /\ ends[i] = End(i - 1) + Len(Written(i))
  /\ \A i, j \in 1..Len(ends) : i <= j => ends[i] <= ends[j]
  /\ phase = "refused" => \E i \in 1..Len(schema) : ~Writable(i)
  /\ phase \notin {"marshaling", "refused"} => Len(ends) = Len(schema)
  /\ phase = "marshaling" => result = <<>>

\* The payload is what is behind field k of the first n bytes that were written.
Holds(k, n) ==
  /\ Len(payload) = n - End(k)
  /\ \A i \in (k + 1)..Len(ends) : \A x \in 1..Len(Written(i)) :
       End(i - 1) + x <= n => payload[End(i - 1) + x - End(k)] = Written(i)[x]

\* As long as every field read has arrived whole, Unmarshal is in step.
InStepInv ==
  /\ phase = "marshaling" => Holds(0, End(Len(ends)))
  /\ phase = "reading" /\ End(Len(result)) <= arrived => Holds(Len(result), arrived)

\* What it has read so far is kept, and it has passed no required field that did not
\* arrive, unless it is behind an optional one.
ReadInv ==
  /\ phase \in {"reading", "read", "failed"} =>
       \A i \in 1..Len(result) :
         /\ ends[i] <= arrived => Kept(i)
         /\ (\A j \in 1..i : schema[j].required) => ends[i] <= arrived
  /\ phase = "failed" => arrived < End(Len(schema)) /\ schema # <<>>
  /\ phase = "read" => Len(result) = Len(schema)

PayloadInv == PayloadTypeOK /\ WrittenInv /\ InStepInv /\ ReadInv
=============================================================================
