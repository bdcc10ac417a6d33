------------------------------ MODULE KeyUpdate ------------------------------
(***************************************************************************)
(* KeyUpdate in the TLS 1.3 record layer of one connection                 *)
(* (protocol/reality/tls13/application_io.rs and record.rs).  The reader    *)
(* half authenticates the peer's requests and raises a shared flag; the    *)
(* writer half, in another task, seals its records in batches, answers     *)
(* before its next output record, and changes its key when the old one is  *)
(* nearly used up.  A session handoff carries what is still owed across.   *)
(*                                                                         *)
(* A KeyUpdate message is UpdateLen units long and may be split over       *)
(* records.  Sealing takes no time; every write to the socket may be       *)
(* cancelled.                                                              *)
(***************************************************************************)
EXTENDS Integers

CONSTANTS UpdateLen,     \* KEY_UPDATE_MESSAGE_LEN
          BatchSlots,    \* BATCHED_SLOT_COUNT
          KeyLimit,      \* key_usage_limit
          MaxRequests,   \* bound: updates the peer requests
          MaxGeneration  \* bound: the last key under which a batch begins

ASSUME KeyUpdateAssumption ==
    /\ UpdateLen \in Nat \ {0} /\ BatchSlots \in Nat \ {0}
    /\ KeyLimit \in Nat /\ KeyLimit >= 2   \* a record and the KeyUpdate after it
    /\ MaxRequests \in Nat /\ MaxGeneration \in Nat

VARIABLES
    responsePending,   \* KeyUpdateCoordination: carried over by a handoff
    responseObserved,  \* KeyUpdateCoordination: set by the reader
    partial,           \* KeyUpdateReassembly.length
    readerOpen,        \* the reader has not met an invalid record
    asked,             \* requests authenticated so far
    writer,            \* program counter of the writer half
    remaining,         \* slots of the batch still to seal
    unsent,            \* generations of the sealed records not yet written
    generation, sequence,  \* the write direction's Tls13RecordLayer
    peerGeneration,    \* KeyUpdate records on the wire: what the peer decrypts with
    owed, answering    \* requests without an answer; those the sealed answer covers

flags == <<responsePending, responseObserved>>
readerVars == <<partial, readerOpen, asked>>
recordVars == <<remaining, unsent, generation, sequence, peerGeneration>>
kuVars == <<flags, readerVars, writer, recordVars, owed, answering>>

KeyUpdateTypeOK ==
    /\ responsePending \in BOOLEAN /\ responseObserved \in BOOLEAN
    /\ partial \in 0 .. UpdateLen - 1 /\ readerOpen \in BOOLEAN
    /\ asked \in 0 .. MaxRequests
    /\ writer \in {"idle", "slot", "update", "sealed", "taken", "seal", "flush", "failed"}
    /\ remaining \in 0 .. BatchSlots
    /\ generation \in Nat /\ peerGeneration \in Nat /\ sequence \in 0 .. KeyLimit
    /\ unsent \subseteq 0 .. generation
    /\ owed \subseteq 1 .. MaxRequests /\ answering \subseteq owed

KeyUpdateInit ==
    /\ responsePending = FALSE /\ responseObserved = FALSE
    /\ partial = 0 /\ readerOpen = TRUE /\ asked = 0
    /\ writer = "idle" /\ remaining = 0 /\ unsent = {}
    /\ generation = 0 /\ sequence = 0 /\ peerGeneration = 0
    /\ owed = {} /\ answering = {}

\* A handshake record: push_record, and the flag once a request is complete.
ReadFragment(n, requested) ==
    LET end == partial + n IN
    /\ readerOpen
    /\ requested => asked < MaxRequests
    /\ readerOpen' = (end <= UpdateLen)
    /\ partial' = IF end < UpdateLen THEN end ELSE 0
    /\ IF end = UpdateLen /\ requested
       THEN /\ responseObserved' = TRUE
            /\ asked' = asked + 1
            /\ owed' = owed \cup {asked + 1}
       ELSE UNCHANGED <<responseObserved, asked, owed>>
    /\ UNCHANGED <<responsePending, writer, recordVars, answering>>

\* Application data, an alert or another content type inside a split message.
ReadInterrupted ==
    /\ readerOpen /\ partial > 0
    /\ readerOpen' = FALSE
    /\ UNCHANGED <<flags, partial, asked, writer, recordVars, owed, answering>>

BeginBatch ==
    /\ writer = "idle" /\ generation < MaxGeneration
    /\ remaining' \in 1 .. BatchSlots
    /\ writer' = "slot"
    /\ UNCHANGED <<flags, readerVars, unsent, generation, sequence, peerGeneration,
                   owed, answering>>

NeedsKeyUpdate == sequence >= KeyLimit - 1
UpdateDue == responsePending \/ responseObserved \/ NeedsKeyUpdate

\* Bug: the sealed records of the batch stay behind the KeyUpdate.
UnsentBeforeUpdateKept == unsent
\* What is left to write once the check before an update has flushed.
UnsentBeforeUpdate == {}

CheckSlot ==
    /\ writer = "slot"
    /\ writer' = IF UpdateDue THEN "update" ELSE "seal"
    /\ unsent' = IF UpdateDue THEN UnsentBeforeUpdate ELSE unsent
    /\ UNCHANGED <<flags, readerVars, remaining, generation, sequence, peerGeneration,
                   owed, answering>>

\* write_key_update_if_needed: seal under the old key, take the flags, write,
\* and only then advance the traffic secret.
SealUpdate ==
    /\ writer = "update"
    /\ sequence' = sequence + 1
    /\ writer' = "sealed"
    /\ UNCHANGED <<flags, readerVars, remaining, unsent, generation, peerGeneration,
                   owed, answering>>

TakeResponse ==
    /\ writer = "sealed"
    /\ responsePending' = FALSE /\ responseObserved' = FALSE
    /\ answering' = owed
    /\ writer' = "taken"
    /\ UNCHANGED <<readerVars, recordVars, owed>>

WriteUpdate ==
    /\ writer = "taken"
    /\ peerGeneration' = peerGeneration + 1
    /\ generation' = generation + 1 /\ sequence' = 0
    /\ owed' = owed \ answering /\ answering' = {}
    /\ writer' = "seal"
    /\ UNCHANGED <<flags, readerVars, remaining, unsent>>

SealSlot ==
    /\ writer = "seal"
    /\ sequence' = sequence + 1
    /\ unsent' = unsent \cup {generation}
    /\ remaining' = remaining - 1
    /\ writer' = IF remaining = 1 THEN "flush" ELSE "slot"
    /\ UNCHANGED <<flags, readerVars, generation, peerGeneration, owed, answering>>

WriteBatch ==
    /\ writer = "flush"
    /\ unsent' = {}
    /\ writer' = "idle"
    /\ UNCHANGED <<flags, readerVars, remaining, generation, sequence, peerGeneration,
                   owed, answering>>

\* A write fails, times out or is dropped: the armed SealedWrite fails the direction.
WriteInterrupted ==
    /\ writer \in {"taken", "flush"} \/ (writer = "slot" /\ UpdateDue /\ unsent # {})
    /\ writer' = "failed"
    /\ UNCHANGED <<flags, readerVars, recordVars, owed, answering>>

\* Bug: only an obligation that was itself carried over is exported.
CarriedOverOnly == responsePending
\* into_handoff_parts of the writer
CarriedOver == responsePending \/ responseObserved

\* into_handoff_parts and resume_application_halves.  The reader is consumed
\* after application data, when no message is split; a failed direction is
\* refused by into_exported_state.
Handoff ==
    /\ writer = "idle" /\ partial = 0 /\ readerOpen
    /\ responsePending' = CarriedOver /\ responseObserved' = FALSE
    /\ UNCHANGED <<readerVars, writer, recordVars, owed, answering>>

KeyUpdateNext ==
    \/ \E n \in 1 .. UpdateLen, requested \in BOOLEAN : ReadFragment(n, requested)
    \/ ReadInterrupted
    \/ BeginBatch \/ CheckSlot \/ SealUpdate \/ TakeResponse \/ WriteUpdate
    \/ SealSlot \/ WriteBatch \/ WriteInterrupted
    \/ Handoff

KeyUpdateSpec == KeyUpdateInit /\ [][KeyUpdateNext]_kuVars

(* A requested update is never forgotten: until an answer sealed after the  *)
(* request was seen is on the wire, a flag says that one is owed, also      *)
(* across a handoff and when the reader raises the flag between any two     *)
(* steps of write_key_update_if_needed.                                     *)
OwedIsRemembered ==
    owed \ answering # {} => responsePending \/ responseObserved

(* The peer can open every record: one that waits in the batch is sealed    *)
(* under the key the peer will use when it arrives, no KeyUpdate overtakes  *)
(* it (write_filled_batch), and no key is used up before its own KeyUpdate  *)
(* (needs_key_update, ensure_key_available).                                *)
RecordsAreReadable ==
    /\ \A g \in unsent : g = peerGeneration
    /\ generation = peerGeneration
    /\ writer \in {"update", "seal"} => sequence < KeyLimit

=============================================================================
