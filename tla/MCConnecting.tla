---------------------------- MODULE MCConnecting ----------------------------
(***************************************************************************)
(* Instances for TLC of Service and of the dial below it.  Service takes a *)
(* dial as a step that ends with its context at the latest; Dialing shows  *)
(* why.  A behaviour is one of the one or of the other.                    *)
(***************************************************************************)
EXTENDS Service, DialingInductive

VARIABLE turn

connectingVars == <<turn, vars, dialVars>>

ConnectingInit == turn \in {"service", "dialing"} /\ Init /\ DialInit

ConnectingNext ==
  /\ UNCHANGED turn
  /\ \/ turn = "service" /\ Next /\ UNCHANGED dialVars
     \/ turn = "dialing" /\ DialNext /\ UNCHANGED vars

\* Nothing that Fairness or DialFairness asks for is enabled in the initial
\* state of the part that has not its turn.
ConnectingSpec ==
  ConnectingInit /\ [][ConnectingNext]_connectingVars /\ Fairness /\ DialFairness
=============================================================================
