------------------------ MODULE RecoveryBooksProofs ------------------------
(***************************************************************************)
(* Lemmas about the operations on the books, for any devices: each keeps    *)
(* their types, and only a recorded failure adds to a count.  The proofs of *)
(* ModelServing and of DecodeThread, which both work on these books, cite   *)
(* them.                                                                    *)
(***************************************************************************)
EXTENDS RecoveryBooks, TLAPS

\* The books a process starts with are books.
LEMMA BooksInitType == BooksInit => BooksTypeOK
<1> SUFFICES ASSUME BooksInit  PROVE BooksTypeOK  OBVIOUS
<1>1. "none" \in Recoveries \cup {"none"}  OBVIOUS
<1>2. [epoch |-> 0, consecutive |-> 0, error |-> "none"] \in Book  BY <1>1 DEF Book
<1>3. QED  BY <1>2, DevicesAssumption DEF BooksInit, BooksTypeOK

\* A mark copies the epochs of the books, so it is one of Marks.
LEMMA MarkType == BooksTypeOK => Mark \in Marks
  BY DEF BooksTypeOK, Mark, Marks, Book

\* A failure is charged to devices, whoever moved and whatever was used.
LEMMA AttributeType ==
  ASSUME NEW m, NEW used \in SUBSET Devices
  PROVE  Attribute(m, used) \in SUBSET Devices
<1>1. MovedDevices(m) \subseteq Devices  BY DEF MovedDevices
<1>2. Unattributed \in Devices  BY DEF Devices
<1>3. QED  BY <1>1, <1>2 DEF Attribute

\* Whatever the counts and the cooldown, a failure leads to a recovery.
LEMMA DecisionType ==
  ASSUME NEW devices
  PROVE  DecisionFor(devices) \in Recoveries
  BY DevicesAssumption DEF DecisionFor, Decide, Recoveries

\* The panic hook's step on a device thread keeps the books' types.
LEMMA NoteDevicePanicType ==
  ASSUME BooksTypeOK, NEW d \in Devices, NoteDevicePanic(d)
  PROVE  BooksTypeOK'
<1>1. ASSUME NEW b \in Book  PROVE Failed(b) \in Book
  <2>1. "reload" \in Recoveries \cup {"none"}  BY DEF Recoveries
  <2>2. (IF b.error = "none" THEN "reload" ELSE b.error) \in Recoveries \cup {"none"}
    BY <2>1 DEF Book
  <2>3. b.epoch + 1 \in Nat  BY DEF Book
  <2>4. QED  BY <2>2, <2>3 DEF Failed, Book
<1>2. QED  BY <1>1 DEF BooksTypeOK, NoteDevicePanic

\* So does its step on any other thread.
LEMMA NoteUnattributedPanicType ==
  ASSUME BooksTypeOK, NoteUnattributedPanic
  PROVE  BooksTypeOK'
  BY DEF BooksTypeOK, NoteUnattributedPanic

\* So does a recorded failure.
LEMMA RecordFailureType ==
  ASSUME BooksTypeOK, NEW devices, RecordFailure(devices)
  PROVE  BooksTypeOK'
  BY DecisionType DEF BooksTypeOK, RecordFailure, Book

\* So does a clean load.
LEMMA LoadSucceededType ==
  ASSUME BooksTypeOK, NEW devices, LoadSucceeded(devices)
  PROVE  BooksTypeOK'
  BY DEF BooksTypeOK, LoadSucceeded, Book

\* So does a first token.
LEMMA GenerationSucceededType ==
  ASSUME BooksTypeOK, NEW devices, GenerationSucceeded(devices)
  PROVE  BooksTypeOK'
  BY DEF BooksTypeOK, GenerationSucceeded, Book

\* So does the end of a cooldown.
LEMMA CooldownEndsType ==
  ASSUME BooksTypeOK, CooldownEnds
  PROVE  BooksTypeOK'
  BY DEF BooksTypeOK, CooldownEnds

\* Books that do not move keep their types.
LEMMA SameBooksType ==
  ASSUME BooksTypeOK, UNCHANGED booksVars
  PROVE  BooksTypeOK'
  BY DEF BooksTypeOK, booksVars

\* No count goes up and no exit is latched.
CountsKept ==
  /\ exiting' = exiting
  /\ \A d \in Devices : book'[d].consecutive >= 1 => book[d].consecutive >= 1

\* Only a recorded failure adds to a count or latches an exit.
LEMMA QuietCounts ==
  ASSUME BooksTypeOK,
         \/ \E d \in Devices : NoteDevicePanic(d)
         \/ NoteUnattributedPanic
         \/ \E devices : LoadSucceeded(devices) \/ GenerationSucceeded(devices)
         \/ CooldownEnds
         \/ UNCHANGED booksVars
  PROVE  CountsKept
<1> USE DEF BooksTypeOK, CountsKept
<1>1. CASE \E d \in Devices : NoteDevicePanic(d)
  <2>1. PICK d \in Devices : NoteDevicePanic(d)  BY <1>1
  <2>2. ASSUME NEW e \in Devices  PROVE book'[e].consecutive = book[e].consecutive
    <3>1. book[e] \in Book  OBVIOUS
    <3>2. book'[e] = book[e] \/ book'[e] = Failed(book[e])  BY <2>1 DEF NoteDevicePanic
    <3>3. QED  BY <3>1, <3>2 DEF Failed, Book
  <2>3. QED  BY <2>1, <2>2 DEF NoteDevicePanic
<1>2. CASE NoteUnattributedPanic  BY <1>2 DEF NoteUnattributedPanic
<1>3. CASE \E devices : LoadSucceeded(devices)  BY <1>3 DEF LoadSucceeded, Book
<1>4. CASE \E devices : GenerationSucceeded(devices)  BY <1>4 DEF GenerationSucceeded, Book
<1>5. CASE CooldownEnds  BY <1>5 DEF CooldownEnds
<1>6. CASE UNCHANGED booksVars  BY <1>6 DEF booksVars
<1>7. QED  BY <1>1, <1>2, <1>3, <1>4, <1>5, <1>6

\* An exit is latched by a device that had failed before.
LEMMA LatchNeedsACount ==
  ASSUME BooksTypeOK, NEW devices \in SUBSET Devices, RecordFailure(devices), exiting'
  PROVE  exiting \/ \E d \in Devices : book[d].consecutive >= 1
<1>1. exiting \/ DecisionFor(devices) = "restart"  BY DEF RecordFailure
<1>2. Decide(1) # "restart"  BY DEF Decide
<1>3. QED  BY <1>1, <1>2 DEF DecisionFor
============================================================================
