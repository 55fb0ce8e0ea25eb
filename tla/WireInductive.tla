---------------------------- MODULE WireInductive ----------------------------
(***************************************************************************)
(* The inductive invariant of Wire: what Unmarshal has left to read is what *)
(* Marshal had left to write at the same place, as long as data is left.   *)
(***************************************************************************)
EXTENDS Wire

Codings ==
  {"string", "text", "json", "jsonOrEmpty", "metadata", "byte", "bool", "has", "uint32", "uint64", "count"}

\* A sequence, of whatever its elements are.
IsList(s) == s \in Seq({s[i] : i \in 1..Len(s)})

\* The fields whose errors are dropped.
Dropped == {"PublisherPrivateKey", "RBAC"}

\* r reads what w writes.
Agrees(w, r) ==
  /\ w.name = r.name /\ w.kind \in Codings \ {"jsonOrEmpty"}
  /\ w.kind = r.kind \/ (w.kind = "json" /\ r.kind = "jsonOrEmpty")
  /\ IsList(w.item) /\ IsList(r.item) /\ Len(w.item) = Len(r.item)
  /\ r.loose => r.kind = "string" /\ r.name \in Dropped

\* The identity payloads limit every text they read, and no other payload does.
Unlike(limited) == IF limited THEN {"string", "json", "jsonOrEmpty"} ELSE {"text", "metadata"}

\* So does a field of a counted list, which has no list of its own.
Pairs(w, r, limited) == Agrees(w, r) /\ r.kind \notin Unlike(limited)
Matches(w, r, limited) ==
  /\ Pairs(w, r, limited)
  /\ \A j \in 1..Len(w.item) :
       /\ Pairs(w.item[j], r.item[j], limited) /\ ~r.item[j].loose
       /\ w.item[j].item = <<>> /\ r.item[j].item = <<>>

\* A field of its own that may be written and read anywhere.
Fits(f, limited) == Matches(f, f, limited) /\ f.loose = FALSE

MatchAll(write, read, limited) ==
  /\ IsList(write) /\ IsList(read) /\ Len(write) = Len(read)
  /\ \A i \in 1..Len(write) : Matches(write[i], read[i], limited) /\ (read[i].loose => i = Len(read))

Conforms(codec, limited) == codec.strict = limited /\ MatchAll(codec.write, codec.read, limited)

WireTypeOK ==
  /\ type \in Types /\ rows \in Rows /\ full \in Fills
  /\ data \in Seq(Nat) /\ received \in Nat
  /\ IsList(written) /\ \A k \in 1..Len(written) : written[k][2] \in Seq(Nat)
  /\ IsList(got) /\ IsList(marks) /\ Len(marks) = Len(written) + 1
  /\ \A k \in 1..Len(marks) : marks[k].at \in Nat
  /\ sent \in {"marshaling", "whole", "cut", "longer"}
  /\ status \in {"open", "ok", "error", "refused"}

\* Behind k fields: what was left to be written, and how long the data was.
Left(k) == marks[k + 1].todo
At(k) == marks[k + 1].at
Piece(k) == Encode(Head(Left(k - 1)), written[k][2])

\* The k-th field was written from what was left, and left what follows it.
Marked(k) ==
  LET f == Head(Left(k - 1)) IN
  /\ Left(k - 1) # <<>>
  /\ written[k] = <<f.name, ValueOf(f, k, IsFull(k), IsLong(k), rows)>>
  /\ f.kind = "metadata" => ~IsLong(k)
  /\ Left(k) = Following(f, written[k][2], Tail(Left(k - 1)))
  /\ At(k) = At(k - 1) + Len(Piece(k))

MarksInv ==
  /\ Left(0) = NewRegistry[type].write /\ At(0) = 0
  /\ \A k \in 1..Len(written) : Marked(k)
  /\ \A j, k \in 0..Len(written) : j <= k => At(j) <= At(k)
  /\ Left(Len(written)) = IF sent = "marshaling" THEN todo ELSE <<>>

\* The data is what is behind k fields of the first n bytes, and what a newer peer adds.
InData(k, n) ==
  /\ Len(data) = n - At(k)
  /\ \A j \in (k + 1)..Len(written) : \A x \in 1..Len(Piece(j)) :
       At(j - 1) + x <= n => data[At(j - 1) + x - At(k)] = Piece(j)[x]

SentInv ==
  LET length == At(Len(written)) IN
  /\ sent = "marshaling" => InData(0, length) /\ got = <<>> /\ status \in {"open", "refused"}
  /\ status = "refused" => sent = "marshaling" /\ todo # <<>>
  /\ sent = "whole" => received = length
  /\ sent = "longer" => received = length + 2
  /\ sent = "cut" => received < length

\* In step with Marshal, out of data, or behind a field whose error was dropped.
InStep(k) ==
  /\ At(k) <= received /\ InData(k, received)
  /\ MatchAll(Left(k), todo, type \in Identity)
Starved == sent = "cut" /\ data = <<>>
Passed(k) == sent = "cut" /\ k < Len(written) /\ written[k + 1][1] \in Dropped

GotInv ==
  /\ Len(got) <= Len(written)
  /\ \A i \in 1..Len(got) : got[i] = written[i] /\ (type \in Identity => Len(got[i][2]) # 2)
  /\ sent # "marshaling" /\ status = "open" =>
       InStep(Len(got)) \/ Starved \/ (Passed(Len(got)) /\ todo = <<>>)
  /\ status = "ok" =>
       /\ sent = "whole" \/ (sent = "longer" /\ type \notin Identity) => Len(got) = Len(written)
       /\ sent = "longer" => type \notin Identity
       /\ sent = "cut" => Starved \/ Passed(Len(got))
  /\ status = "error" => (sent = "whole" => Overlong) /\ (sent = "longer" => type \in Identity)

WireInv == WireTypeOK /\ MarksInv /\ SentInv /\ GotInv
=============================================================================
