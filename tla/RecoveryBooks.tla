--------------------------- MODULE RecoveryBooks ---------------------------
(***************************************************************************)
(* The books mummu-serve keeps on its devices (recovery.rs): the global     *)
(* fault epoch, one book per device, the previous process's failure shown   *)
(* for the record, and the latched decision to exit.                        *)
(*                                                                          *)
(* The module has no next-state relation of its own: every operation below  *)
(* is a step of the requests, the panic hook and the decode thread, which   *)
(* ModelServing and DecodeThread compose with it.  Each one runs under the  *)
(* STATE mutex in the code, so each is one action.                          *)
(***************************************************************************)
EXTENDS Naturals

CONSTANTS
  Accelerators,  \* devices cubecl drives (DeviceKey::Cubecl)
  Host,          \* DeviceKey::Host
  Unattributed,  \* DeviceKey::Unattributed
  Supervised,    \* a supervisor restarts this process when it exits
  Inherited,     \* failures the previous process may have left: the devices
                 \* each names, {} for one that names none
  Nothing        \* no previous failure to show

ASSUME DevicesAssumption ==
  /\ Host \notin Accelerators
  /\ Unattributed \notin Accelerators \cup {Host}
  /\ Supervised \in BOOLEAN
  /\ Inherited \subseteq SUBSET (Accelerators \cup {Host, Unattributed})

Devices == Accelerators \cup {Host, Unattributed}

\* What recovery does about an unresolved failure (Decision, Recovery).
Recoveries == {"reload", "restart", "cooling_down", "unsupervised"}

VARIABLES
  epoch,        \* EPOCH: every device failure, on every path and device
  book,         \* per device: its epoch, its consecutive count, its open error
  previous,     \* the devices the previous process's failure names, or Nothing
  exiting,      \* EXITING: latched by the first decision to exit
  coolingDown   \* some self-restart in the history is inside RESTART_COOLDOWN

booksVars == <<epoch, book, previous, exiting, coolingDown>>

Book == [epoch : Nat, consecutive : Nat, error : Recoveries \cup {"none"}]

BooksTypeOK ==
  /\ epoch \in Nat
  /\ book \in [Devices -> Book]
  /\ previous \in Inherited \cup {Nothing}
  /\ exiting \in BOOLEAN
  /\ coolingDown \in BOOLEAN

BooksInit ==
  /\ epoch = 0
  /\ book = [d \in Devices |-> [epoch |-> 0, consecutive |-> 0, error |-> "none"]]
  /\ previous \in Inherited \cup {Nothing}
  /\ exiting = FALSE
  /\ coolingDown \in {FALSE, Supervised}   \* a history of self-restarts needs a supervisor

---------------------------------------------------------------------------
(* Epoch marks: what a load or a generation compares itself with.           *)

Mark == [global |-> epoch, devices |-> [d \in Devices |-> book[d].epoch]]

Marks == [global : Nat, devices : [Devices -> Nat]]

Moved(mark) == epoch # mark.global

MovedDevices(mark) == {d \in Devices : book[d].epoch > mark.devices[d]}

\* Whom a failure seen since `mark` is charged to.
Attribute(mark, used) ==
  CASE MovedDevices(mark) # {}                              -> MovedDevices(mark)
    [] MovedDevices(mark) = {} /\ used \cap Accelerators # {} -> used \cap Accelerators
    [] OTHER -> IF used # {} THEN used ELSE {Unattributed}

---------------------------------------------------------------------------
(* The panic hook.                                                          *)

\* A failed device's book: an open error keeps what was decided for it.
Failed(b) == [b EXCEPT !.epoch = @ + 1, !.error = IF @ = "none" THEN "reload" ELSE @]

\* Mutant: the device's book moves, the global epoch does not.
NoteDevicePanicInItsBookOnly(d) ==
  /\ book' = [book EXCEPT ![d] = Failed(@)]
  /\ UNCHANGED <<epoch, previous, exiting, coolingDown>>

\* A device thread's own panic: its book moves and its record opens.
NoteDevicePanic(d) ==
  /\ epoch' = epoch + 1
  /\ book' = [book EXCEPT ![d] = Failed(@)]
  /\ UNCHANGED <<previous, exiting, coolingDown>>

\* cubecl's text on any other thread: whoever catches it names the device.
NoteUnattributedPanic ==
  /\ epoch' = epoch + 1
  /\ UNCHANGED <<book, previous, exiting, coolingDown>>

---------------------------------------------------------------------------
(* Decisions.                                                               *)

\* Mutant: the first failure escalates.
DecideAtOnce(consecutive) == IF Supervised THEN "restart" ELSE "unsupervised"

\* The escalation rule, for the worst count among the failed devices.
Decide(consecutive) ==
  CASE consecutive < 2                                  -> "reload"
    [] consecutive >= 2 /\ ~Supervised                  -> "unsupervised"
    [] consecutive >= 2 /\ Supervised /\ coolingDown    -> "cooling_down"
    [] consecutive >= 2 /\ Supervised /\ ~coolingDown   -> "restart"

\* What a failure charged to `devices` leads to: their counts go up first.
DecisionFor(devices) ==
  IF \E d \in devices : book[d].consecutive >= 1 THEN Decide(2) ELSE Decide(1)

\* Mutant: a failure that came as an error moves no epoch.
RecordFailureQuietly(devices) ==
  /\ book' = [d \in Devices |->
                IF d \in devices
                THEN [book[d] EXCEPT !.consecutive = @ + 1, !.error = DecisionFor(devices)]
                ELSE book[d]]
  /\ exiting' = (exiting \/ DecisionFor(devices) = "restart")
  /\ UNCHANGED <<epoch, previous, coolingDown>>

\* Count a failure that cost a request, decide, and latch an exit.
RecordFailure(devices) ==
  /\ epoch' = epoch + 1
  /\ book' = [d \in Devices |->
                IF d \in devices
                THEN [epoch       |-> book[d].epoch + 1,
                      consecutive |-> book[d].consecutive + 1,
                      error       |-> DecisionFor(devices)]
                ELSE book[d]]
  /\ exiting' = (exiting \/ DecisionFor(devices) = "restart")
  /\ UNCHANGED <<previous, coolingDown>>

\* The previous failure is kept as ONE label, its devices joined with " + ":
\* it is recognised when it names no device, or exactly one of these.
ClearsPrevious(devices) == previous \in {{}} \cup {{d} : d \in devices}

\* A load came up clean on `devices`: their failures, and theirs only, are
\* resolved -- and those nobody could attribute.
LoadSucceeded(devices) ==
  /\ book' = [d \in Devices |->
                IF d \in devices \cup {Unattributed}
                THEN [book[d] EXCEPT !.error = "none"] ELSE book[d]]
  /\ previous' = IF ClearsPrevious(devices) THEN Nothing ELSE previous
  /\ UNCHANGED <<epoch, exiting, coolingDown>>

\* A first token on `devices`: whatever failed on them before is behind us.
GenerationSucceeded(devices) ==
  /\ book' = [d \in Devices |->
                IF d \in devices \cup {Unattributed}
                THEN [book[d] EXCEPT !.consecutive = 0] ELSE book[d]]
  /\ UNCHANGED <<epoch, previous, exiting, coolingDown>>

\* Time passes: the last self-restart leaves the cooldown window.
CooldownEnds ==
  /\ coolingDown
  /\ coolingDown' = FALSE
  /\ UNCHANGED <<epoch, book, previous, exiting>>
============================================================================
