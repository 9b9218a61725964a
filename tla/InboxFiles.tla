------------------------------ MODULE InboxFiles ------------------------------
(***************************************************************************)
(* The files of an inbox (runtime_adapter.py). A message is an envelope    *)
(* and perhaps an attachment. Storing one moves the oldest read messages   *)
(* out of the way, file by file, puts the new files in their place and     *)
(* deletes what was moved; when a step fails or is interrupted, every move *)
(* is taken back, and that may fail as well. Deleting a message, and all   *)
(* messages of a session that ends, is file by file too. The registry lock *)
(* lets one of these run at a time; the process may be killed at any step. *)
(*                                                                         *)
(* How many read messages make room depends on sizes, which are left out:  *)
(* the choice here is free, except that the number of messages must fit.   *)
(***************************************************************************)
EXTENDS Naturals, Sequences, SequencesExt, FiniteSets

CONSTANTS
    Messages, Sessions,
    SessionOf(_), HasAttachment(_),
    NoMessage,
    MaxMessages         \* of the endpoint

ASSUME InboxFilesAssumption ==
    /\ \A m \in Messages : SessionOf(m) \in Sessions /\ HasAttachment(m) \in BOOLEAN
    /\ NoMessage \notin Messages /\ MaxMessages \in Nat \ {0}

Files == {f \in {"attachment", "envelope"} \X Messages : f[1] = "attachment" => HasAttachment(f[2])}
Envelope(m) == <<"envelope", m>>
Attachment(m) == <<"attachment", m>>
FilesOf(m) == {f \in Files : f[2] = m}

VARIABLES
    place,      \* of each file: nowhere, the inbox, or a transaction directory
    readOrder,  \* messages marked as read, the oldest first
    ended,      \* sessions the registry no longer has
    phase,      \* of the operation under the lock
    message,    \* that is being stored
    todo,       \* files still to move, to take back or to delete
    moved,      \* files that made room
    ends,       \* the session that ends with a deletion
    before,     \* history: the inbox when the storing began
    stored,     \* history: messages that were stored
    gone,       \* history: messages whose deletion was begun, or that made room for another
    cut,        \* history: messages whose storing was cut off by a kill
    broken      \* history: messages with a file that could not be taken back

job == <<phase, message, todo, moved, ends, before>>
past == <<stored, gone, cut, broken>>
filesVars == <<place, readOrder, ended, job, past>>

Inbox == {f \in Files : place[f] = "inbox"}
Read == ToSet(readOrder)

FilesTypeOK ==
    /\ place \in [Files -> {"none", "inbox", "kept"}]
    /\ readOrder \in Seq(Messages) /\ IsInjective(readOrder)
    /\ ended \subseteq Sessions /\ ends \subseteq Sessions
    /\ phase \in {"idle", "moving", "committed", "undoing", "deleting"}
    /\ message \in Messages \cup {NoMessage}
    /\ \A s \in {todo, moved, before} : s \subseteq Files
    /\ \A s \in {stored, gone, cut, broken} : s \subseteq Messages

FilesInit ==
    /\ place = [f \in Files |-> "none"] /\ readOrder = <<>> /\ ended = {}
    /\ phase = "idle" /\ message = NoMessage
    /\ todo = {} /\ moved = {} /\ ends = {} /\ before = {}
    /\ stored = {} /\ gone = {} /\ cut = {} /\ broken = {}

Put(f, p) == place' = [place EXCEPT ![f] = p]
Done ==
    /\ phase' = "idle" /\ message' = NoMessage
    /\ todo' = {} /\ moved' = {} /\ ends' = {} /\ before' = {}

-----------------------------------------------------------------------------
(* The order of the steps on two files: read messages from the oldest, then *)
(* the new one; each attachment before its envelope.                        *)

Older(m, o) == \E i, j \in DOMAIN readOrder : i < j /\ readOrder[i] = m /\ readOrder[j] = o

\* Mutant: the envelope comes first.
EnvelopeEarlier(f, g) ==
    \/ f[2] = g[2] /\ f[1] = "envelope"
    \/ f[2] # g[2] /\ (g[2] = message \/ Older(f[2], g[2]))

Earlier(f, g) ==
    \/ f[2] = g[2] /\ f[1] = "attachment"
    \/ f[2] # g[2] /\ (g[2] = message \/ Older(f[2], g[2]))

IsFirst(f, set) == f \in set /\ \A g \in set \ {f} : Earlier(f, g)
IsLast(f, set) == f \in set /\ \A g \in set \ {f} : Earlier(g, f)

-----------------------------------------------------------------------------
(* write_message_envelope().                                                *)

Retirable == {m \in Read : Envelope(m) \in Inbox}

\* Some of the oldest read messages make room. The new files are written to the transaction
\* directory; without room nothing happens.
BeginWrite(m, oldest) ==
    /\ phase = "idle" /\ SessionOf(m) \notin ended /\ m \notin stored \cup cut \cup broken
    /\ oldest \subseteq Retirable
    /\ \A o \in oldest, p \in Retirable : Older(p, o) => p \in oldest
    /\ Cardinality({o \in Messages \ oldest : Envelope(o) \in Inbox}) < MaxMessages
    /\ phase' = "moving" /\ message' = m /\ before' = Inbox
    /\ todo' = {f \in Inbox : f[2] \in oldest}
    /\ UNCHANGED <<place, readOrder, ended, moved, ends, past>>

Move(f) ==
    /\ phase = "moving" /\ IsFirst(f, todo)
    /\ Put(f, "kept") /\ todo' = todo \ {f} /\ moved' = moved \cup {f}
    /\ UNCHANGED <<readOrder, ended, phase, message, ends, before, past>>

\* The next of the new files is put in its place.
PutNew(f) ==
    /\ phase = "moving" /\ todo = {} /\ IsFirst(f, FilesOf(message) \ Inbox)
    /\ Put(f, "inbox")
    /\ phase' = IF FilesOf(message) \subseteq Inbox \cup {f} THEN "committed" ELSE "moving"
    /\ UNCHANGED <<readOrder, ended, message, todo, moved, ends, before, past>>

\* What was moved is deleted, as far as possible.
CleanUp(left) ==
    /\ phase = "committed"
    /\ place' = [f \in Files |-> IF f \in moved \ left THEN "none" ELSE place[f]]
    /\ stored' = stored \cup {message} /\ gone' = gone \cup {f[2] : f \in moved}
    /\ Done /\ UNCHANGED <<readOrder, ended, cut, broken>>

\* Mutant: an attachment in its place is not taken back.
UndoesEnvelope == (Inbox \cap {Envelope(message)}) \cup moved

Undoes == (Inbox \cap FilesOf(message)) \cup moved

\* A step fails, the quota is exceeded, or an interrupt arrives, also after the last move.
Fail ==
    /\ phase \in {"moving", "committed"} /\ phase' = "undoing" /\ todo' = Undoes
    /\ UNCHANGED <<place, readOrder, ended, message, moved, ends, before, past>>

\* The next file, in reverse order, is taken back, or that fails; the others are tried all
\* the same.
Undo(f) ==
    /\ phase = "undoing" /\ IsLast(f, todo) /\ todo' = todo \ {f}
    /\ \/ Put(f, IF f[2] = message THEN "none" ELSE "inbox") /\ UNCHANGED broken
       \/ UNCHANGED place /\ broken' = broken \cup {message, f[2]}
    /\ UNCHANGED <<readOrder, ended, phase, message, moved, ends, before, stored, gone, cut>>

\* Mutant: the transaction directory is deleted in any case.
UndoneAnyway ==
    /\ phase = "undoing" /\ todo = {}
    /\ place' = [f \in Files |-> IF f \in moved /\ place[f] = "kept" THEN "none" ELSE place[f]]
    /\ Done /\ UNCHANGED <<readOrder, ended, past>>

\* Only when everything was taken back, the transaction directory, empty now, is deleted.
Undone ==
    /\ phase = "undoing" /\ todo = {}
    /\ Done /\ UNCHANGED <<place, readOrder, ended, past>>

-----------------------------------------------------------------------------
(* Reading and deleting.                                                    *)

ReadMessage(m) ==
    /\ phase = "idle" /\ SessionOf(m) \notin ended /\ Envelope(m) \in Inbox /\ m \notin Read
    /\ readOrder' = Append(readOrder, m)
    /\ UNCHANGED <<place, ended, job, past>>

BeginDelete(ms, ss) ==
    /\ phase = "idle" /\ phase' = "deleting" /\ ends' = ss
    /\ todo' = {f \in Inbox : f[2] \in ms} /\ gone' = gone \cup ms
    /\ UNCHANGED <<place, readOrder, ended, message, moved, before, stored, cut, broken>>

\* delete() of the chat.
DeleteMessage(m) ==
    Envelope(m) \in Inbox /\ SessionOf(m) \notin ended /\ BeginDelete({m}, {})

\* A session was revoked or expired: the purge before the registry is written.
Purge(s) ==
    /\ s \notin ended
    /\ BeginDelete({m \in Messages : SessionOf(m) = s /\ Envelope(m) \in Inbox}, {s})

\* _delete_message_files_locked(): the attachment, if it is there, then the envelope.
Unlink(f) ==
    /\ phase = "deleting" /\ f \in todo /\ IsFirst(f, todo \cap FilesOf(f[2]))
    /\ Put(f, "none") /\ todo' = todo \ {f}
    /\ UNCHANGED <<readOrder, ended, phase, message, moved, ends, before, past>>

\* The registry without the session is written.
Deleted ==
    /\ phase = "deleting" /\ todo = {} /\ ended' = ended \cup ends
    /\ Done /\ UNCHANGED <<place, readOrder, past>>

\* A file cannot be deleted, or the registry not written: the exception ends it.
DeleteFails ==
    /\ phase = "deleting" /\ Done /\ UNCHANGED <<place, readOrder, ended, past>>

\* The process is killed, or interrupted while it takes back its moves.
Crash ==
    /\ phase # "idle" /\ Done
    /\ cut' = cut \cup ({message} \ {NoMessage})
    /\ UNCHANGED <<place, readOrder, ended, stored, gone, broken>>

FilesNext ==
    \/ \E m \in Messages :
          (\E oldest \in SUBSET Read : BeginWrite(m, oldest)) \/ ReadMessage(m) \/ DeleteMessage(m)
    \/ \E f \in Files : Move(f) \/ PutNew(f) \/ Undo(f) \/ Unlink(f)
    \/ \E left \in SUBSET moved : CleanUp(left)
    \/ \E s \in Sessions : Purge(s)
    \/ Fail \/ Undone \/ Deleted \/ DeleteFails \/ Crash

FilesSpec == FilesInit /\ [][FilesNext]_filesVars

-----------------------------------------------------------------------------
(* Properties.                                                              *)

\* "Ordinary errors, shutdown interrupts" (README.md): storing a message adds all its
\* files and removes whole messages, or leaves the inbox as it was, wherever it failed;
\* a kill, and an error that says that it could not be taken back, are the exceptions.
AllOrNothing ==
    [][(phase \in {"committed", "undoing"} /\ phase' = "idle" /\ UNCHANGED cut /\ message \notin broken) =>
          \/ Inbox' = before
          \/ Inbox' = (before \ moved) \cup FilesOf(message)]_filesVars

\* A message that was stored is on disk as a whole, in the inbox or in a transaction
\* directory, until it is deleted or retired by one that was stored. Kills and failures
\* of the rollback leave "recovery data" (README.md) and lose nothing.
NothingLost ==
    \A m \in stored \ gone : \A f \in FilesOf(m) : place[f] # "none"

\* A message that nobody read or deletes is never in the inbox without its attachment,
\* and no attachment without its envelope, by which alone it would be found and deleted,
\* wherever the program was killed; except, for the latter, when the storing of the
\* message was cut off or could not be taken back.
FilesAreTogether ==
    \A m \in Messages :
        /\ Envelope(m) \in Inbox /\ m \notin Read \cup gone \cup broken => FilesOf(m) \subseteq Inbox
        /\ Attachment(m) \in Inbox /\ m \notin cut \cup broken \cup {message} => Envelope(m) \in Inbox

=============================================================================
