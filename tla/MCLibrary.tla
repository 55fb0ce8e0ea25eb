----------------------------- MODULE MCLibrary -----------------------------
(***************************************************************************)
(* Instances for TLC of the parts that no other goroutine of the SDK       *)
(* shares: payload codecs, custom messages, references and the identity    *)
(* listing.  A behaviour is one of the part whose turn it is; the others   *)
(* stay in an initial state.                                               *)
(***************************************************************************)
EXTENDS CustomInductive, ReferenceInductive, IdentityListInductive

Every == DOMAIN NewRegistry

\* Go values of every type.  The second number needs more than 32 bits.
SomeValues ==
  {GoValue("string", <<7, 8>>), GoValue("bytes", <<9>>), GoValue("uint32", <<0, 0, 1, 2>>),
   GoValue("uint64", <<0, 0, 0, 3, 0, 0, 0, 4>>), GoValue("number", Zeros(7) \o <<5>>),
   GoValue("number", <<0, 0, 0, 6, 0, 0, 0, 1>>), GoValue("bool", <<1>>), Nil}

VARIABLE turn

libraryVars == <<turn, vars, payloadVars, registryVars, refVars, listVars>>

LibraryInit ==
  /\ turn \in {"payload", "custom payload", "registry", "reference", "listing"}
  /\ IF turn = "payload" THEN Init ELSE Payload("Ping", 0, 0)
  /\ IF turn = "custom payload" THEN PayloadInit ELSE DynamicPayload(<<>>, <<>>)
  /\ RegistryInit
  /\ IF turn = "reference" THEN RefInit ELSE RefStart(<<>>)
  /\ IF turn = "listing" THEN ListInit ELSE ListStart([i \in Ids |-> "absent"])

LibraryNext ==
  /\ UNCHANGED turn
  /\ \/ turn = "payload" /\ Next /\ UNCHANGED <<payloadVars, registryVars, refVars, listVars>>
     \/ turn = "custom payload" /\ PayloadNext /\ UNCHANGED <<vars, registryVars, refVars, listVars>>
     \/ turn = "registry" /\ RegistryNext /\ UNCHANGED <<vars, payloadVars, refVars, listVars>>
     \/ turn = "reference" /\ RefNext /\ UNCHANGED <<vars, payloadVars, registryVars, listVars>>
     \/ turn = "listing" /\ ListNext /\ UNCHANGED <<vars, payloadVars, registryVars, refVars>>

LibrarySpec == LibraryInit /\ [][LibraryNext]_libraryVars
=============================================================================
