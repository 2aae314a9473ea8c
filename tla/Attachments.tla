------------------------------ MODULE Attachments ------------------------------
(***************************************************************************)
(* Attachments on the local disk: an upload is checked, written to a       *)
(* temporary file, synced and renamed to its key; a download opens a key.  *)
(* Calls run side by side; their context may end, every system call may    *)
(* fail, the process may be killed and the machine may lose power.  No     *)
(* route of the server uses the package yet.                               *)
(*                                                                         *)
(* Keys and the names of temporary files are random and do not come back,  *)
(* so that the ID of an upload stands for both of its names and for the    *)
(* file behind them.                                                       *)
(***************************************************************************)
EXTENDS Naturals, FiniteSets

CONSTANTS
  Upload,         \* calls of Service.Upload
  Download,       \* calls of Service.Download
  Kind,           \* what DetectContentType says of a content
  Extension,      \* extensions of a filename
  MaxSize,        \* Service.maxSize
  MaxSent,        \* bound on what a client sends
  Matches(_, _)   \* extensionMatches, for the kinds in allowed

ASSUME AttachmentAssumption ==
  /\ MaxSize \in Nat /\ MaxSent \in Nat
  /\ \A x \in Extension, k \in Kind : Matches(x, k) \in BOOLEAN

VARIABLES
  calls,          \* where each upload is
  sent,           \* what its client sends
  ended,          \* uploads whose context has ended
  written,        \* how much of its file is written
  synced,         \* how much of that survives a loss of power
  temporary,      \* uploads whose file has its temporary name
  stored,         \* uploads whose file has its key
  readers,        \* the files that downloads hold open
  exposed         \* uploads whose key was deleted, or there when power was lost

diskVars == <<written, synced, temporary, stored>>
attachmentVars == <<calls, sent, ended, diskVars, readers, exposed>>

Source == [size : 0..MaxSent, kind : Kind, extension : Extension]

\* Where an upload is: the phases are named for the last thing done.
Writing == {"created", "synced", "closed", "cleared"}
UnderWay == {"checked", "renamed"} \cup Writing
Phase   == {"none", "answered", "failed", "killed"} \cup UnderWay

AttachmentInit ==
  /\ calls = [c \in Upload |-> "none"]
  /\ sent \in [Upload -> Source]
  /\ ended = {}
  /\ written = [c \in Upload |-> 0] /\ synced = [c \in Upload |-> 0]
  /\ temporary = {} /\ stored = {}
  /\ readers = [d \in Download |-> {}]
  /\ exposed = {}

-----------------------------------------------------------------------------
(* Uploads.                                                                 *)

\* What ReadAll returns of a source: one more than the limit tells that the
\* source is too long.
Read_UpToLimit(size) == IF size > MaxSize THEN MaxSize ELSE size
Read(size) == IF size > MaxSize + 1 THEN MaxSize + 1 ELSE size

Acceptable(source) ==
  /\ Read(source.size) \in 1..MaxSize
  /\ Matches(source.extension, source.kind)

\* The checks of Upload, before anything touches the disk.
CheckUpload(c) ==
  /\ calls[c] = "none"
  /\ calls' = [calls EXCEPT ![c] =
       IF Acceptable(sent[c]) THEN "checked" ELSE "failed"]
  /\ UNCHANGED <<sent, ended, diskVars, readers, exposed>>

CreateTemp_AtKey(c) ==
  /\ calls[c] = "checked"
  /\ calls' = [calls EXCEPT ![c] = "created"]
  /\ stored' = stored \cup {c}
  /\ UNCHANGED <<sent, ended, written, synced, temporary, readers, exposed>>
CreateTemp(c) ==
  /\ calls[c] = "checked"
  /\ calls' = [calls EXCEPT ![c] = "created"]
  /\ temporary' = temporary \cup {c}
  /\ UNCHANGED <<sent, ended, written, synced, stored, readers, exposed>>

\* Some more of the content reaches the file.
Copy(c) ==
  /\ calls[c] = "created"
  /\ \E n \in written[c] + 1 .. Read(sent[c].size) :
       written' = [written EXCEPT ![c] = n]
  /\ UNCHANGED <<calls, sent, ended, synced, temporary, stored, readers, exposed>>

Flushed_Nothing(c) == synced[c]
Flushed(c) == written[c]

Sync(c) ==
  /\ calls[c] = "created" /\ written[c] = Read(sent[c].size)
  /\ calls' = [calls EXCEPT ![c] = "synced"]
  /\ synced' = [synced EXCEPT ![c] = Flushed(c)]
  /\ UNCHANGED <<sent, ended, written, temporary, stored, readers, exposed>>

Close(c) ==
  /\ calls[c] = "synced"
  /\ calls' = [calls EXCEPT ![c] = "closed"]
  /\ UNCHANGED <<sent, ended, diskVars, readers, exposed>>

\* The context is looked at once; it may end before the rename all the same.
CheckContext(c) ==
  /\ calls[c] = "closed" /\ c \notin ended
  /\ calls' = [calls EXCEPT ![c] = "cleared"]
  /\ UNCHANGED <<sent, ended, diskVars, readers, exposed>>

Rename(c) ==
  /\ calls[c] = "cleared"
  /\ calls' = [calls EXCEPT ![c] = "renamed"]
  /\ temporary' = temporary \ {c} /\ stored' = stored \cup {c}
  /\ UNCHANGED <<sent, ended, written, synced, readers, exposed>>

\* The caller gets the object, whose size and digest are those of what was
\* read.
Answer(c) ==
  /\ calls[c] = "renamed"
  /\ calls' = [calls EXCEPT ![c] = "answered"]
  /\ UNCHANGED <<sent, ended, diskVars, readers, exposed>>

\* The deferred Remove of a Put that ends early, which is taken to succeed.
Removed_IfCopying(c) == IF calls[c] = "created" THEN temporary \ {c} ELSE temporary
Removed(c) == temporary \ {c}

\* Reading the source or a system call fails, or the context has ended where it
\* is looked at.
FailUpload(c) ==
  /\ calls[c] \in {"none", "checked"} \cup Writing
  /\ calls' = [calls EXCEPT ![c] = "failed"]
  /\ temporary' = Removed(c)
  /\ UNCHANGED <<sent, ended, written, synced, stored, readers, exposed>>

EndContext(c) ==
  /\ c \notin ended
  /\ ended' = ended \cup {c}
  /\ UNCHANGED <<calls, sent, diskVars, readers, exposed>>

-----------------------------------------------------------------------------
(* Downloads and the storage underneath.                                    *)

\* The file stays readable through an open reader when its key is deleted.
OpenKey(d, c) ==
  /\ readers[d] = {} /\ calls[c] = "answered" /\ c \in stored
  /\ readers' = [readers EXCEPT ![d] = {c}]
  /\ UNCHANGED <<calls, sent, ended, diskVars, exposed>>

CloseReader(d) ==
  /\ readers[d] # {}
  /\ readers' = [readers EXCEPT ![d] = {}]
  /\ UNCHANGED <<calls, sent, ended, diskVars, exposed>>

DeleteKey(c) ==
  /\ c \in stored
  /\ stored' = stored \ {c}
  /\ exposed' = exposed \cup {c}
  /\ UNCHANGED <<calls, sent, ended, written, synced, temporary, readers>>

Killed == [c \in Upload |->
  IF calls[c] \in UnderWay THEN "killed" ELSE calls[c]]

\* The process ends: what it wrote is in the file system, deferred calls never
\* run.
Kill ==
  /\ calls' = Killed
  /\ readers' = [d \in Download |-> {}]
  /\ UNCHANGED <<sent, ended, diskVars, exposed>>

\* The machine stops: of each file what is not synced may be lost, and since
\* nothing syncs the directory, so may any of its entries.
LosePower ==
  /\ calls' = Killed
  /\ readers' = [d \in Download |-> {}]
  /\ written' \in [Upload -> 0..MaxSize]
  /\ \A c \in Upload : written'[c] \in synced[c]..written[c]
  /\ temporary' \in SUBSET temporary /\ stored' \in SUBSET stored
  /\ exposed' = exposed \cup stored
  /\ UNCHANGED <<sent, ended, synced>>

AttachmentNext ==
  \/ \E c \in Upload :
       \/ CheckUpload(c) \/ CreateTemp(c) \/ Copy(c) \/ Sync(c) \/ Close(c)
       \/ CheckContext(c) \/ Rename(c) \/ Answer(c) \/ FailUpload(c) \/ EndContext(c) \/ DeleteKey(c)
  \/ \E d \in Download : CloseReader(d) \/ \E c \in Upload : OpenKey(d, c)
  \/ Kill \/ LosePower

AttachmentSpec == AttachmentInit /\ [][AttachmentNext]_attachmentVars

-----------------------------------------------------------------------------
(* Safety.                                                                  *)

AttachmentTypeOK ==
  /\ calls \in [Upload -> Phase] /\ sent \in [Upload -> Source]
  /\ ended \subseteq Upload
  /\ written \in [Upload -> 0..MaxSize] /\ synced \in [Upload -> 0..MaxSize]
  /\ temporary \subseteq Upload /\ stored \subseteq Upload
  /\ readers \in [Download -> SUBSET Upload]
  /\ exposed \subseteq Upload

\* Under a key, and in whatever a download has open, also when its key is gone,
\* there is the whole of what the client sent, of an allowed size and kind:
\* neither a failure, a kill nor a loss of power at any point leaves half a file
\* there, and a source that is too long is refused and not cut off.
WholeUnderKey ==
  \A c \in stored \cup UNION {readers[d] : d \in Download} :
    /\ written[c] = sent[c].size /\ sent[c].size \in 1..MaxSize
    /\ Matches(sent[c].extension, sent[c].kind)

\* The answer to an upload agrees with the disk: its key appears only for the
\* caller who is told so, unless the process is killed in between; whoever was
\* told finds the key there until power is lost or the key deleted.
AnswerAgreesWithDisk ==
  \A c \in Upload :
    /\ c \in stored => calls[c] \in {"renamed", "answered", "killed"}
    /\ calls[c] = "answered" => c \in stored \cup exposed

\* A temporary file belongs to an upload that is being written or was killed: a
\* failure at any point leaves none behind.  Nothing ever removes the file of a
\* killed one.
LitterOnlyFromKills ==
  \A c \in temporary : calls[c] \in Writing \cup {"killed"}
=============================================================================
