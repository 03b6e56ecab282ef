------------------------------ MODULE MCProtocol -------------------------------
(***************************************************************************)
(* What the protocol modules let pass, for TLC: the names of operations    *)
(* (Registration) or a value (BridgeValues).  The two share nothing, so a  *)
(* behaviour is of one of them, and the other one rests: nothing is        *)
(* registered, or an empty object has been accepted.                       *)
(***************************************************************************)
EXTENDS Registration, BridgeValues

NothingRegistered ==
  /\ phase = "refused"
  /\ impl = {} /\ schemas = {} /\ todo = {}
  /\ paths = {} /\ table = {} /\ entries = <<>> /\ api = {}

NothingParsed ==
  /\ fields = [o \in Objects |-> <<>>] /\ sort = [o \in Objects |-> "plain"]
  /\ limits = [depth |-> 0, entries |-> 0, bytes |-> NoLimit]
  /\ pending = <<>> /\ ancestors = {} /\ counted = 0 /\ totalBytes = 0
  /\ verdict = "accepted"

ProtocolInit ==
  \/ Init /\ NothingParsed
  \/ ParseInit /\ NothingRegistered

ProtocolNext ==
  \/ Next /\ UNCHANGED parseVars
  \/ ParseNext /\ UNCHANGED vars

ProtocolSpec == ProtocolInit /\ [][ProtocolNext]_<<vars, parseVars>>
=============================================================================
