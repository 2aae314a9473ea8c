---------------------------- MODULE AttachmentProofs ----------------------------
(***************************************************************************)
(* The invariants of Attachments, for any uploads, downloads, sizes and    *)
(* kinds.                                                                  *)
(***************************************************************************)
EXTENDS Attachments, TLAPS

USE DEF Writing, UnderWay, diskVars

-----------------------------------------------------------------------------
(* Types.                                                                   *)

\* What Read returns, as a number.
LEMMA ReadRange ==
  ASSUME NEW size \in Nat
  PROVE  /\ Read(size) \in Nat
         /\ Read(size) <= MaxSize => Read(size) = size
BY AttachmentAssumption DEF Read

\* No step leaves the types.
LEMMA TypeStep ==
  ASSUME AttachmentTypeOK, [AttachmentNext]_attachmentVars,
         \A c \in Upload : calls[c] \in Writing => Read(sent[c].size) <= MaxSize
  PROVE  AttachmentTypeOK'
<1> USE AttachmentAssumption DEF AttachmentTypeOK, Phase
<1>0. \A c \in Upload : Read(sent[c].size) \in Nat
  BY ReadRange DEF Source
<1>1. ASSUME NEW c \in Upload, CheckUpload(c) PROVE AttachmentTypeOK'
  BY <1>1 DEF CheckUpload
<1>2. ASSUME NEW c \in Upload, CreateTemp(c) PROVE AttachmentTypeOK'
  BY <1>2 DEF CreateTemp
<1>3. ASSUME NEW c \in Upload, Copy(c) PROVE AttachmentTypeOK'
  BY <1>0, <1>3 DEF Copy
<1>4. ASSUME NEW c \in Upload, Sync(c) PROVE AttachmentTypeOK'
  BY <1>0, <1>4 DEF Sync, Flushed
<1>5. ASSUME NEW c \in Upload, Close(c) PROVE AttachmentTypeOK'
  BY <1>5 DEF Close
<1>6. ASSUME NEW c \in Upload, CheckContext(c) PROVE AttachmentTypeOK'
  BY <1>6 DEF CheckContext
<1>7. ASSUME NEW c \in Upload, Rename(c) PROVE AttachmentTypeOK'
  BY <1>7 DEF Rename
<1>8. ASSUME NEW c \in Upload, Answer(c) PROVE AttachmentTypeOK'
  BY <1>8 DEF Answer
<1>9. ASSUME NEW c \in Upload, FailUpload(c) PROVE AttachmentTypeOK'
  BY <1>9 DEF FailUpload, Removed
<1>10. ASSUME NEW c \in Upload, EndContext(c) PROVE AttachmentTypeOK'
  BY <1>10 DEF EndContext
<1>11. ASSUME NEW c \in Upload, DeleteKey(c) PROVE AttachmentTypeOK'
  BY <1>11 DEF DeleteKey
<1>12. ASSUME NEW d \in Download, CloseReader(d) PROVE AttachmentTypeOK'
  BY <1>12 DEF CloseReader
<1>13. ASSUME NEW d \in Download, NEW c \in Upload, OpenKey(d, c) PROVE AttachmentTypeOK'
  BY <1>13 DEF OpenKey
<1>14. CASE Kill
  BY <1>14 DEF Kill, Killed
<1>15. CASE LosePower
  BY <1>15 DEF LosePower, Killed
<1>16. CASE UNCHANGED attachmentVars
  BY <1>16 DEF attachmentVars
<1> QED
  BY <1>1, <1>2, <1>3, <1>4, <1>5, <1>6, <1>7, <1>8, <1>9, <1>10, <1>11, <1>12, <1>13, <1>14, <1>15, <1>16 DEF AttachmentNext

-----------------------------------------------------------------------------
(* The disk.                                                                *)

\* Everything that was read has been synced, and it was acceptable.
Settled(c) == synced[c] = Read(sent[c].size) /\ Acceptable(sent[c])

\* What the invariants rest on: from Sync on the file is settled, and only
\* settled files get a key or a reader.
UploadInv(c) ==
  /\ synced[c] <= written[c] /\ written[c] <= Read(sent[c].size)
  /\ calls[c] \in UnderWay => Acceptable(sent[c])
  /\ calls[c] \in {"synced", "closed", "cleared", "renamed", "answered"} => Settled(c)
  /\ c \in stored => Settled(c) /\ calls[c] \in {"renamed", "answered", "killed"}
  /\ calls[c] \in {"renamed", "answered"} => c \in stored \cup exposed
  /\ c \in temporary => calls[c] \in Writing \cup {"killed"}
  /\ \A d \in Download : c \in readers[d] => Settled(c)

DiskInv == AttachmentTypeOK /\ \A c \in Upload : UploadInv(c)

\* The invariant holds at first.
LEMMA DiskInit == AttachmentInit => DiskInv
<1> SUFFICES ASSUME AttachmentInit PROVE DiskInv
  OBVIOUS
<1>1. AttachmentTypeOK
  BY AttachmentAssumption DEF AttachmentInit, AttachmentTypeOK, Phase
<1>2. ASSUME NEW c \in Upload PROVE UploadInv(c)
  <2>1. sent[c].size \in Nat
    BY <1>1 DEF AttachmentTypeOK, Source
  <2> QED
    BY <2>1, ReadRange DEF AttachmentInit, UploadInv
<1> QED
  BY <1>1, <1>2 DEF DiskInv

\* No step leaves the invariant.
LEMMA DiskStep == DiskInv /\ [AttachmentNext]_attachmentVars => DiskInv'
<1> SUFFICES ASSUME DiskInv, [AttachmentNext]_attachmentVars PROVE DiskInv'
  OBVIOUS
<1>a. \A c \in Upload : calls[c] \in Writing => Read(sent[c].size) <= MaxSize
  BY AttachmentAssumption DEF DiskInv, UploadInv, Acceptable
<1>b. AttachmentTypeOK'
  BY <1>a, TypeStep DEF DiskInv
<1> SUFFICES ASSUME NEW k \in Upload PROVE UploadInv(k)'
  BY <1>b DEF DiskInv
<1>c. /\ sent' = sent /\ Read(sent[k].size) \in Nat
      /\ synced[k] \in Nat /\ written[k] \in Nat /\ synced'[k] \in Nat /\ written'[k] \in Nat
  <2>1. sent' = sent
    BY DEF AttachmentNext, attachmentVars, CheckUpload, CreateTemp, Copy, Sync, Close,
           CheckContext, Rename, Answer, FailUpload, EndContext, DeleteKey, CloseReader,
           OpenKey, Kill, LosePower
  <2>2. sent[k].size \in Nat
    BY DEF DiskInv, AttachmentTypeOK, Source
  <2> QED
    BY <1>b, <2>1, <2>2, ReadRange, AttachmentAssumption DEF DiskInv, AttachmentTypeOK
<1>d. UploadInv(k) /\ AttachmentTypeOK
  BY DEF DiskInv
<1> USE <1>b, <1>c, <1>d DEF UploadInv, Settled, AttachmentTypeOK
<1>1. ASSUME NEW c \in Upload, CheckUpload(c) PROVE UploadInv(k)'
  BY <1>1 DEF CheckUpload
<1>2. ASSUME NEW c \in Upload, CreateTemp(c) PROVE UploadInv(k)'
  BY <1>2 DEF CreateTemp
<1>3. ASSUME NEW c \in Upload, Copy(c) PROVE UploadInv(k)'
  BY <1>3 DEF Copy
<1>4. ASSUME NEW c \in Upload, Sync(c) PROVE UploadInv(k)'
  BY <1>4 DEF Sync, Flushed
<1>5. ASSUME NEW c \in Upload, Close(c) PROVE UploadInv(k)'
  BY <1>5 DEF Close
<1>6. ASSUME NEW c \in Upload, CheckContext(c) PROVE UploadInv(k)'
  BY <1>6 DEF CheckContext
<1>7. ASSUME NEW c \in Upload, Rename(c) PROVE UploadInv(k)'
  BY <1>7 DEF Rename
<1>8. ASSUME NEW c \in Upload, Answer(c) PROVE UploadInv(k)'
  BY <1>8 DEF Answer
<1>9. ASSUME NEW c \in Upload, FailUpload(c) PROVE UploadInv(k)'
  BY <1>9 DEF FailUpload, Removed
<1>10. ASSUME NEW c \in Upload, EndContext(c) PROVE UploadInv(k)'
  BY <1>10 DEF EndContext
<1>11. ASSUME NEW c \in Upload, DeleteKey(c) PROVE UploadInv(k)'
  BY <1>11 DEF DeleteKey
<1>12. ASSUME NEW d \in Download, CloseReader(d) PROVE UploadInv(k)'
  BY <1>12 DEF CloseReader
<1>13. ASSUME NEW d \in Download, NEW c \in Upload, OpenKey(d, c) PROVE UploadInv(k)'
  BY <1>13 DEF OpenKey
<1>14. CASE Kill
  BY <1>14 DEF Kill, Killed
<1>15. CASE LosePower
  BY <1>15 DEF LosePower, Killed
<1>16. CASE UNCHANGED attachmentVars
  BY <1>16 DEF attachmentVars
<1> QED
  BY <1>1, <1>2, <1>3, <1>4, <1>5, <1>6, <1>7, <1>8, <1>9, <1>10, <1>11, <1>12, <1>13, <1>14, <1>15, <1>16 DEF AttachmentNext

-----------------------------------------------------------------------------
(* The theorems.                                                            *)

LEMMA DiskAlways == AttachmentSpec => []DiskInv
<1> QED
  BY DiskInit, DiskStep, PTL DEF AttachmentSpec

\* What the properties say of one state follows from the invariant.
LEMMA DiskImplies ==
  DiskInv => /\ AttachmentTypeOK /\ WholeUnderKey
             /\ AnswerAgreesWithDisk /\ LitterOnlyFromKills
<1> SUFFICES ASSUME DiskInv
             PROVE  /\ AttachmentTypeOK /\ WholeUnderKey
                    /\ AnswerAgreesWithDisk /\ LitterOnlyFromKills
  OBVIOUS
<1>1. ASSUME NEW c \in Upload, Settled(c)
      PROVE  /\ written[c] = sent[c].size /\ sent[c].size \in 1..MaxSize
             /\ Matches(sent[c].extension, sent[c].kind)
  <2>1. sent[c].size \in Nat /\ written[c] \in Nat /\ synced[c] \in Nat
    BY AttachmentAssumption DEF DiskInv, AttachmentTypeOK, Source
  <2>2. Read(sent[c].size) = sent[c].size
    BY <1>1, <2>1, ReadRange, AttachmentAssumption DEF Settled, Acceptable
  <2>3. synced[c] <= written[c] /\ written[c] <= Read(sent[c].size)
    BY DEF DiskInv, UploadInv
  <2> QED
    BY <1>1, <2>1, <2>2, <2>3 DEF Settled, Acceptable
<1>2. WholeUnderKey
  BY <1>1 DEF DiskInv, UploadInv, WholeUnderKey, AttachmentTypeOK
<1>3. AnswerAgreesWithDisk /\ LitterOnlyFromKills
  BY DEF DiskInv, UploadInv, AnswerAgreesWithDisk, LitterOnlyFromKills, AttachmentTypeOK
<1> QED
  BY <1>2, <1>3 DEF DiskInv

\* Uploads stay of their types in every reachable state.
THEOREM AttachmentTypeCorrect == AttachmentSpec => []AttachmentTypeOK
BY DiskAlways, DiskImplies, PTL

\* No failure, kill or loss of power leaves half a file, or one that should
\* have been refused, under a key or in the hands of a reader.
THEOREM KeysWhole == AttachmentSpec => []WholeUnderKey
BY DiskAlways, DiskImplies, PTL

\* A key is there for whoever was told so, and for nobody else.
THEOREM AnswersAgree == AttachmentSpec => []AnswerAgreesWithDisk
BY DiskAlways, DiskImplies, PTL

\* A temporary file is one that is being written or was killed.
THEOREM LitterBounded == AttachmentSpec => []LitterOnlyFromKills
BY DiskAlways, DiskImplies, PTL
=============================================================================
