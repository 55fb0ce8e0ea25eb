------------------------ MODULE IdentityListInductive ------------------------
(***************************************************************************)
(* The inductive invariant of IdentityList: what is under way between a    *)
(* listing that began fresh and the server, what a page says of the        *)
(* inventory while it is on its way, and what the listing has gathered.    *)
(***************************************************************************)
EXTENDS IdentityList

Batches == Seq([id : Ids, revoked : BOOLEAN])
Asking == {"connecting", "connected", "awaiting"}

ListTypeOK ==
  /\ inventory \in [Ids -> {"absent", "active", "revoked"}]
  /\ stage \in Asking \cup Returned
  /\ page \in Nat /\ after \in Nat /\ out \in Seq(Ids)
  /\ lasting \subseteq Active /\ shown \subseteq Ids /\ leftover \in BOOLEAN
  /\ stage # "idle" => Active \subseteq shown
  /\ asked \in Seq(Nat)
  /\ answers \in Seq([kind : {"page", "refusal", "Error"}, objects : Batches])

\* The page b, asked for with the cursor, is still right for the listing: it is in
\* order, skips nothing that stayed active and shows nothing that never was.
Right(b, cursor) ==
  /\ Len(b) <= PageSize
  /\ \A k \in DOMAIN b :
       b[k].id > cursor /\ b[k].id \in Existing /\ (b[k].revoked \/ b[k].id \in shown)
  /\ \A j, k \in DOMAIN b : j < k => b[j].id < b[k].id
  /\ \A i \in lasting : i > cursor /\ (Len(b) < PageSize \/ i <= Last(b).id) =>
       \E k \in DOMAIN b : b[k].id = i /\ ~b[k].revoked

\* The pages on their way to the client.
Coming == {k \in DOMAIN answers : answers[k].kind = "page"}

\* A fresh listing has its own request under way, or the one page that answers it.
UnderwayInv ==
  ~leftover =>
    /\ stage \in {"connecting", "connected"} => asked = <<>> /\ Coming = {}
    /\ stage = "awaiting" =>
         \/ asked = <<after>> /\ Coming = {}
         \/ /\ asked = <<>> /\ \A j, k \in Coming : j = k
            /\ \A k \in Coming : Right(answers[k].objects, after)

\* What it has gathered is all that stayed active up to the cursor, in order, and
\* every page behind it was full.
GatheredInv ==
  ~leftover =>
    /\ Range(out) \subseteq shown
    /\ stage \in Asking \cup {"exceeded"} =>
         /\ \A k \in DOMAIN out : out[k] <= after
         /\ \A i \in lasting : i <= after => i \in Range(out)
         /\ Cardinality(UpTo(Existing, after)) >= PageSize * page
    /\ stage = "listed" => lasting \subseteq Range(out)
    /\ stage \in Asking \cup {"exceeded", "listed"} =>
         \A j, k \in DOMAIN out : j < k => out[j] < out[k]
    /\ stage = "exceeded" => page >= MaxPages

ListInv == ListTypeOK /\ UnderwayInv /\ GatheredInv
=============================================================================
