---------------------------- MODULE FlashProofs ----------------------------
(***************************************************************************)
(* Proofs about FlashCard, for any cards, images, keys, faults and number  *)
(* of commands: what is written is trusted, the source card is kept, and a *)
(* command that reports success leaves a good card.                        *)
(***************************************************************************)
EXTENDS FlashCard, TLAPS

-----------------------------------------------------------------------------
(* The inductive invariant.                                                 *)

(* The steps of a command that carries keys, from the reader on.            *)
Reading == {"read", "another", "mismatch", "swap", "guard"}
KeyedOnly == {"source", "reader", "format", "keys", "marker"} \cup Reading
PlainOnly == {"select", "readback"}

(* The command has its options; only one with keys takes the steps that     *)
(* deal with them, and only one with a single reader asks for cards.        *)
RunInv ==
    /\ DOMAIN run = DOMAIN NoRun
    /\ run.single \in BOOLEAN /\ run.misread \in BOOLEAN /\ run.skip \in BOOLEAN
    /\ ~Idle => run.o \in Options
    /\ run.pc \in KeyedOnly => Keyed
    /\ run.pc \in PlainOnly => ~Keyed
    /\ run.pc \in {"another", "swap", "guard"} => run.single

(* An image that was chosen was checked: a local one at once, a release     *)
(* when it was fetched, before the reader with keys and before the card     *)
(* without them.  A command that starts again keeps a local one only.       *)
Local == run.o.from \notin {"release", "url"}
Chosen == \/ run.pc \in Writing
          \/ Keyed /\ run.pc \in Reading \cup {"reader", "confirm"}
Trusted == \/ run.img \in Signed
           \/ run.verdict = "unsigned" /\ run.img \notin Forged
ImageInv ==
    ~Idle /\ (Local \/ Chosen) => run.img \in Images \cup {Torn} /\ Trusted

(* The card that is to be written is in its reader.                         *)
TargetInv ==
    /\ run.pc \in Writing \cup {"confirm", "fetch"} /\ ~Keyed => slot \in Cards
    /\ run.pc \in Writing \cup {"mismatch", "swap", "guard", "confirm"} /\ Keyed /\ run.single => slot \in Cards
    /\ run.pc \in Writing \cup {"read", "mismatch", "confirm"} /\ Keyed /\ ~run.single => slot2 \in Cards
    /\ run.pc \in Writing \cup Reading \cup {"confirm"} /\ Keyed => run.node # Nothing

(* What the command remembers of its source: the card, its identity and,    *)
(* before the other card is accepted, that the two differ.                  *)
SourceInv ==
    ~Idle /\ Keyed =>
    /\ run.pc \in Writing \cup {"mismatch", "swap", "guard", "confirm"} => run.src \in Cards
    /\ run.pc = "mismatch" \/ (~run.single /\ run.pc \in Writing \cup {"confirm"}) => slot = run.src /\ slot # Nothing
    /\ run.single /\ run.pc \in {"swap", "guard", "confirm", "write"} => run.misread \/ run.id = Identity(run.src)
    /\ run.single /\ run.pc \in {"confirm", "write"} => run.misread \/ ~CardIdsMatch(run.id, Identity(slot))

(* A restored card's keys are those of the source as long as the source is  *)
(* not the card that is written.                                            *)
BackupInv ==
    ~Idle /\ Keyed /\ run.o.kind = "restore" =>
    /\ run.pc \in {"mismatch", "swap", "guard", "confirm", "write"} => cards[run.src].keys = run.backup.keys
    /\ run.pc \in Writing /\ ReaderOf # run.src => cards[run.src].keys = run.backup.keys

(* What is on the card at each step of the writing.                         *)
KeysWritten == cards[ReaderOf].keys \in {Nothing, run.backup.keys}
MarkerWritten == cards[ReaderOf].setup => cards[ReaderOf].chain = "main"
WrittenInv ==
    /\ run.pc \in {"format", "keys"} => cards[ReaderOf].keys = Nothing /\ cards[ReaderOf].setup = FALSE
    /\ run.pc = "marker" => KeysWritten /\ cards[ReaderOf].setup = FALSE
    /\ run.pc \in {"config", "manifest", "verify"} /\ Keyed => KeysWritten /\ MarkerWritten
    /\ run.pc \in {"manifest", "verify"} /\ Keyed => cards[ReaderOf].config = run.node
    /\ run.pc \in {"manifest", "config", "verify"} /\ ~Keyed => run.skip \/ cards[ReaderOf].image = run.img
    /\ run.pc \in {"config", "verify"} /\ ~Keyed => cards[ReaderOf].manifest = run.img

(* The type invariant, by what its parts need of the others.                *)
CardsOK == DOMAIN cards = Cards /\ \A c \in Cards : CardOK(cards[c])
CountsOK == head \in 1 .. MaxHead /\ faults \in 0 .. MaxFaults /\ runs \in 0 .. MaxRuns
NamesOK ==
    /\ slot \in Cards \cup {Nothing} /\ slot2 \in Cards \cup {Nothing}
    /\ slot = slot2 => slot = Nothing
    /\ cache \in {"none", "part", "whole"}
    /\ run.pc \in Steps /\ run.o \in Options \cup {Nothing}
    /\ run.node \in 1 .. MaxHead \cup {Nothing}

IInv == TypeOK /\ RunInv /\ ImageInv /\ TargetInv /\ SourceInv /\ BackupInv /\ WrittenInv
-----------------------------------------------------------------------------
(* The signature check lets trusted images pass, and nothing else.          *)
LEMMA EnforcedTrusts ==
    ASSUME NEW i, NEW r, Enforced(i, r), run' # Go("failed")
    PROVE  \E v : /\ run' = [r EXCEPT !.img = i, !.verdict = v]
                  /\ i \in Signed \/ (v = "unsigned" /\ i \notin Forged)
  BY DEF Enforced, SignatureVerdict

-----------------------------------------------------------------------------
(* Every action keeps each part of the invariant.                           *)

(* The record of the command keeps its shape and its options.               *)
LEMMA RunStep ==
    ASSUME IInv, [Next]_vars PROVE RunInv'
<1> USE DEF IInv, RunInv, TypeOK, Go, Keyed, Idle, NoRun, Options, KeyedOnly, PlainOnly, Reading
<1>1. ASSUME NEW o \in Options, CmdFlash(o) PROVE RunInv'
  BY <1>1 DEF CmdFlash, Started, Enforced, SignatureVerdict
<1>2. ASSUME NEW o \in Options, CmdFlashDownload(o) PROVE RunInv'
  BY <1>2 DEF CmdFlashDownload, Started
<1>3. ASSUME NEW skip \in BOOLEAN, CmdDownload(skip) PROVE RunInv'
  BY <1>3 DEF CmdDownload, Cached, Downloaded, DownloadBroken
<1>4. CASE CheckNode
  <2>1. CASE run' = Go("failed")
    BY <2>1, <1>4 DEF CheckNode
  <2>2. CASE run' # Go("failed")
    <3>1. PICK n \in {head, Nothing} : run' = [run EXCEPT !.node = n, !.pc = IF Keyed THEN "source" ELSE "select"]
      BY <2>2, <1>4 DEF CheckNode
    <3>2. CASE Keyed
      BY <3>1, <3>2, <1>4 DEF CheckNode
    <3>3. CASE ~Keyed
      BY <3>1, <3>3, <1>4 DEF CheckNode
    <3> QED
      BY <3>2, <3>3
  <2> QED
    BY <2>1, <2>2
<1>5. CASE Fetch
  <2>1. CASE run' = Go("failed")
    BY <2>1, <1>5 DEF Fetch
  <2>2. CASE run' # Go("failed")
    <3> DEFINE next == Go(IF Keyed THEN "reader" ELSE "write")
    <3>1. run.pc = "fetch" /\ Enforced(Release, next)
      BY <2>2, <1>5 DEF Fetch
    <3> HIDE DEF next
    <3>2. PICK v : /\ run' = [next EXCEPT !.img = Release, !.verdict = v]
                   /\ Release \in Signed \/ (v = "unsigned" /\ Release \notin Forged)
      BY <2>2, <3>1, EnforcedTrusts
    <3> USE DEF next
    <3>3. CASE Keyed
      BY <3>1, <3>2, <3>3, <1>5, FlashAssumption DEF Fetch
    <3>4. CASE ~Keyed
      BY <3>1, <3>2, <3>4, <1>5, FlashAssumption DEF Fetch
    <3> QED
      BY <3>3, <3>4
  <2> QED
    BY <2>1, <2>2
<1>6. CASE SelectDevice
  <2>1. CASE run' = Go("failed")
    BY <2>1, <1>6 DEF SelectDevice
  <2>2. CASE run' = Restarted
    BY <2>2, <1>6 DEF SelectDevice, Restarted
  <2>3. CASE run' = Go("confirm")
    BY <2>3, <1>6 DEF SelectDevice, Detected
  <2> QED
    BY <2>1, <2>2, <2>3, <1>6 DEF SelectDevice, NotMounted, ProbeWriteAccess
<1>7. CASE ResolveKeySource
  BY <1>7 DEF ResolveKeySource
<1>8. CASE RunKeyedFlash
  <2>1. CASE run' = Go("failed")
    BY <2>1, <1>8 DEF RunKeyedFlash
  <2>2. CASE run' = Restarted
    BY <2>2, <1>8 DEF RunKeyedFlash, Restarted
  <2>3. CASE run.node # Nothing /\ run' = [run EXCEPT !.single = SingleReader, !.pc = "read"]
    BY <2>3, <1>8 DEF RunKeyedFlash, SingleReader, Detected
  <2> QED
    BY <2>1, <2>2, <2>3, <1>8 DEF RunKeyedFlash, ProbeWriteAccess
<1>9. CASE ReadSource
  BY <1>9, ZenonT(60) DEF ReadSource
<1>10. CASE WarnNetworkMismatch
  <2>1. CASE run' = Go("failed")
    BY <2>1, <1>10 DEF WarnNetworkMismatch, IdentityRead, Fault
  <2>2. CASE run' # Go("failed")
    BY <2>2, <1>10, ZenonT(60) DEF WarnNetworkMismatch, IdentityRead, Fault
  <2> QED
    BY <1>10, <2>1, <2>2 DEF WarnNetworkMismatch, IdentityRead, Fault
<1>11. CASE SwapGuard
  BY <1>11 DEF SwapGuard, IdentityRead, Misreads, Fault
<1>12. CASE Confirm
  <2>1. CASE run' = Go("failed")
    BY <2>1, <1>12 DEF Confirm
  <2>2. CASE run' # Go("failed")
    BY <2>2, <1>12, ZenonT(60) DEF Confirm
  <2> QED
    BY <1>12, <2>1, <2>2 DEF Confirm
<1>13. CASE FlashImage
  BY <1>13 DEF FlashImage
<1>14. CASE VerifyReadback
  <2>1. CASE run' = Go("failed")
    BY <2>1, <1>14 DEF VerifyReadback
  <2>2. CASE run' = Go("manifest")
    BY <2>2, <1>14 DEF VerifyReadback
  <2>3. CASE run' = [run EXCEPT !.skip = TRUE, !.pc = "manifest"]
    BY <2>3, <1>14 DEF VerifyReadback
  <2> QED
    BY <1>14, <2>1, <2>2, <2>3 DEF VerifyReadback
<1>15. CASE CreateAndFormat
  <2>1. CASE run' = Go("failed")
    BY <2>1, <1>15 DEF CreateAndFormat
  <2>2. CASE run' # Go("failed")
    BY <2>2, <1>15, ZenonT(60) DEF CreateAndFormat
  <2> QED
    BY <1>15, <2>1, <2>2 DEF CreateAndFormat
<1>16. CASE WriteKeys
  BY <1>16 DEF WriteKeys, OnKeys
<1>17. CASE WriteMarker
  BY <1>17 DEF WriteMarker, OnKeys
<1>18. CASE StageConfig
  BY <1>18 DEF StageConfig
<1>19. CASE WriteManifest
  BY <1>19 DEF WriteManifest
<1>20. CASE VerifyTarget
  BY <1>20 DEF VerifyTarget
<1>21. CASE Swap
  BY <1>21 DEF Swap
<1>22. CASE Abort
  BY <1>22 DEF Abort
<1>23. CASE Place
  BY <1>23 DEF Place
<1>24. CASE Bake
  BY <1>24 DEF Bake
<1>25. CASE Advance
  BY <1>25 DEF Advance
<1>26. CASE UNCHANGED vars
  BY <1>26 DEF vars
<1> QED
  BY <1>1, <1>2, <1>3, <1>4, <1>5, <1>6, <1>7, <1>8, <1>9, <1>10, <1>11, <1>12, <1>13, <1>14, <1>15, <1>16, <1>17, <1>18, <1>19, <1>20, <1>21, <1>22, <1>23, <1>24, <1>25, <1>26 DEF Next, Step

(* An image that was chosen stays one that was checked.                     *)
LEMMA ImageStep ==
    ASSUME IInv, [Next]_vars PROVE ImageInv'
<1> USE DEF IInv, RunInv, TypeOK, Go, Keyed, Idle, NoRun, ImageInv, Local, Chosen, Trusted, Writing, Reading, KeyedOnly, PlainOnly
<1>1. ASSUME NEW o \in Options, CmdFlash(o) PROVE ImageInv'
  <2>1. CASE run' = Go("failed")
    BY <2>1, <1>1 DEF CmdFlash, Started
  <2>2. CASE run' # Go("failed")
    <3> DEFINE next == [NoRun EXCEPT !.o = o, !.pc = "node"]
    <3>1. Enforced(o.from, next)
      BY <2>2, <1>1 DEF CmdFlash
    <3> HIDE DEF next
    <3>2. PICK v : /\ run' = [next EXCEPT !.img = o.from, !.verdict = v]
                   /\ o.from \in Signed \/ (v = "unsigned" /\ o.from \notin Forged)
      BY <2>2, <3>1, EnforcedTrusts
    <3> QED
      BY <3>2, <1>1 DEF CmdFlash, Started, next
  <2> QED
    BY <2>1, <2>2
<1>2. ASSUME NEW o \in Options, CmdFlashDownload(o) PROVE ImageInv'
  BY <1>2 DEF CmdFlashDownload, Started
<1>3. ASSUME NEW skip \in BOOLEAN, CmdDownload(skip) PROVE ImageInv'
  BY <1>3 DEF CmdDownload, Cached, Downloaded, DownloadBroken
<1>4. CASE CheckNode
  <2>1. CASE run' = Go("failed")
    BY <2>1, <1>4 DEF CheckNode
  <2>2. CASE run' # Go("failed")
    <3>1. PICK n \in {head, Nothing} : run' = [run EXCEPT !.node = n, !.pc = IF Keyed THEN "source" ELSE "select"]
      BY <2>2, <1>4 DEF CheckNode
    <3>2. CASE Keyed
      BY <3>1, <3>2, <1>4 DEF CheckNode
    <3>3. CASE ~Keyed
      BY <3>1, <3>3, <1>4 DEF CheckNode
    <3> QED
      BY <3>2, <3>3
  <2> QED
    BY <2>1, <2>2
<1>5. CASE Fetch
  <2>1. CASE run' = Go("failed")
    BY <2>1, <1>5 DEF Fetch
  <2>2. CASE run' # Go("failed")
    <3> DEFINE next == Go(IF Keyed THEN "reader" ELSE "write")
    <3>1. run.pc = "fetch" /\ Enforced(Release, next)
      BY <2>2, <1>5 DEF Fetch
    <3> HIDE DEF next
    <3>2. PICK v : /\ run' = [next EXCEPT !.img = Release, !.verdict = v]
                   /\ Release \in Signed \/ (v = "unsigned" /\ Release \notin Forged)
      BY <2>2, <3>1, EnforcedTrusts
    <3> USE DEF next
    <3>3. CASE Keyed
      BY <3>1, <3>2, <3>3, <1>5, FlashAssumption DEF Fetch
    <3>4. CASE ~Keyed
      BY <3>1, <3>2, <3>4, <1>5, FlashAssumption DEF Fetch
    <3> QED
      BY <3>3, <3>4
  <2> QED
    BY <2>1, <2>2
<1>6. CASE SelectDevice
  <2>1. CASE run' = Go("failed")
    BY <2>1, <1>6 DEF SelectDevice
  <2>2. CASE run' = Restarted
    BY <2>2, <1>6 DEF SelectDevice, Restarted
  <2>3. CASE run' = Go("confirm")
    BY <2>3, <1>6 DEF SelectDevice, Detected
  <2> QED
    BY <2>1, <2>2, <2>3, <1>6 DEF SelectDevice, NotMounted, ProbeWriteAccess
<1>7. CASE ResolveKeySource
  BY <1>7 DEF ResolveKeySource
<1>8. CASE RunKeyedFlash
  <2>1. CASE run' = Go("failed")
    BY <2>1, <1>8 DEF RunKeyedFlash
  <2>2. CASE run' = Restarted
    BY <2>2, <1>8 DEF RunKeyedFlash, Restarted
  <2>3. CASE run.node # Nothing /\ run' = [run EXCEPT !.single = SingleReader, !.pc = "read"]
    BY <2>3, <1>8 DEF RunKeyedFlash, SingleReader, Detected
  <2> QED
    BY <2>1, <2>2, <2>3, <1>8 DEF RunKeyedFlash, ProbeWriteAccess
<1>9. CASE ReadSource
  BY <1>9, ZenonT(60) DEF ReadSource
<1>10. CASE WarnNetworkMismatch
  <2>1. CASE run' = Go("failed")
    BY <2>1, <1>10 DEF WarnNetworkMismatch, IdentityRead, Fault
  <2>2. CASE run' # Go("failed")
    BY <2>2, <1>10 DEF WarnNetworkMismatch, IdentityRead, Fault
  <2> QED
    BY <1>10, <2>1, <2>2 DEF WarnNetworkMismatch, IdentityRead, Fault
<1>11. CASE SwapGuard
  BY <1>11 DEF SwapGuard, IdentityRead, Misreads, Fault
<1>12. CASE Confirm
  <2>1. CASE run' = Go("failed")
    BY <2>1, <1>12 DEF Confirm
  <2>2. CASE run' # Go("failed")
    BY <2>2, <1>12 DEF Confirm
  <2> QED
    BY <1>12, <2>1, <2>2 DEF Confirm
<1>13. CASE FlashImage
  BY <1>13 DEF FlashImage
<1>14. CASE VerifyReadback
  <2>1. CASE run' = Go("failed")
    BY <2>1, <1>14 DEF VerifyReadback
  <2>2. CASE run' = Go("manifest")
    BY <2>2, <1>14 DEF VerifyReadback
  <2>3. CASE run' = [run EXCEPT !.skip = TRUE, !.pc = "manifest"]
    BY <2>3, <1>14 DEF VerifyReadback
  <2> QED
    BY <1>14, <2>1, <2>2, <2>3 DEF VerifyReadback
<1>15. CASE CreateAndFormat
  <2>1. CASE run' = Go("failed")
    BY <2>1, <1>15 DEF CreateAndFormat
  <2>2. CASE run' # Go("failed")
    BY <2>2, <1>15 DEF CreateAndFormat
  <2> QED
    BY <1>15, <2>1, <2>2 DEF CreateAndFormat
<1>16. CASE WriteKeys
  BY <1>16 DEF WriteKeys, OnKeys
<1>17. CASE WriteMarker
  BY <1>17 DEF WriteMarker, OnKeys
<1>18. CASE StageConfig
  BY <1>18 DEF StageConfig
<1>19. CASE WriteManifest
  BY <1>19 DEF WriteManifest
<1>20. CASE VerifyTarget
  BY <1>20 DEF VerifyTarget
<1>21. CASE Swap
  BY <1>21 DEF Swap
<1>22. CASE Abort
  BY <1>22 DEF Abort
<1>23. CASE Place
  BY <1>23 DEF Place
<1>24. CASE Bake
  BY <1>24 DEF Bake
<1>25. CASE Advance
  BY <1>25 DEF Advance
<1>26. CASE UNCHANGED vars
  BY <1>26 DEF vars
<1> QED
  BY <1>1, <1>2, <1>3, <1>4, <1>5, <1>6, <1>7, <1>8, <1>9, <1>10, <1>11, <1>12, <1>13, <1>14, <1>15, <1>16, <1>17, <1>18, <1>19, <1>20, <1>21, <1>22, <1>23, <1>24, <1>25, <1>26 DEF Next, Step

(* The target stays in its reader.                                          *)
LEMMA TargetStep ==
    ASSUME IInv, [Next]_vars PROVE TargetInv'
<1> USE DEF IInv, RunInv, TypeOK, Go, Keyed, Idle, NoRun, TargetInv, Writing, Reading, KeyedOnly, PlainOnly
<1>1. ASSUME NEW o \in Options, CmdFlash(o) PROVE TargetInv'
  <2>1. CASE run' = Go("failed")
    BY <2>1, <1>1 DEF CmdFlash, Started
  <2>2. CASE run' # Go("failed")
    <3> DEFINE next == [NoRun EXCEPT !.o = o, !.pc = "node"]
    <3>1. Enforced(o.from, next)
      BY <2>2, <1>1 DEF CmdFlash
    <3> HIDE DEF next
    <3>2. PICK v : /\ run' = [next EXCEPT !.img = o.from, !.verdict = v]
                   /\ o.from \in Signed \/ (v = "unsigned" /\ o.from \notin Forged)
      BY <2>2, <3>1, EnforcedTrusts
    <3> QED
      BY <3>2, <1>1 DEF CmdFlash, Started, next
  <2> QED
    BY <2>1, <2>2
<1>2. ASSUME NEW o \in Options, CmdFlashDownload(o) PROVE TargetInv'
  BY <1>2 DEF CmdFlashDownload, Started
<1>3. ASSUME NEW skip \in BOOLEAN, CmdDownload(skip) PROVE TargetInv'
  BY <1>3 DEF CmdDownload, Cached, Downloaded, DownloadBroken
<1>4. CASE CheckNode
  <2>1. CASE run' = Go("failed")
    BY <2>1, <1>4 DEF CheckNode
  <2>2. CASE run' # Go("failed")
    <3>1. PICK n \in {head, Nothing} : run' = [run EXCEPT !.node = n, !.pc = IF Keyed THEN "source" ELSE "select"]
      BY <2>2, <1>4 DEF CheckNode
    <3>2. CASE Keyed
      BY <3>1, <3>2, <1>4 DEF CheckNode
    <3>3. CASE ~Keyed
      BY <3>1, <3>3, <1>4 DEF CheckNode
    <3> QED
      BY <3>2, <3>3
  <2> QED
    BY <2>1, <2>2
<1>5. CASE Fetch
  <2>1. CASE run' = Go("failed")
    BY <2>1, <1>5 DEF Fetch
  <2>2. CASE run' # Go("failed")
    <3> DEFINE next == Go(IF Keyed THEN "reader" ELSE "write")
    <3>1. run.pc = "fetch" /\ Enforced(Release, next)
      BY <2>2, <1>5 DEF Fetch
    <3> HIDE DEF next
    <3>2. PICK v : /\ run' = [next EXCEPT !.img = Release, !.verdict = v]
                   /\ Release \in Signed \/ (v = "unsigned" /\ Release \notin Forged)
      BY <2>2, <3>1, EnforcedTrusts
    <3> USE DEF next
    <3>3. CASE Keyed
      BY <3>1, <3>2, <3>3, <1>5, FlashAssumption DEF Fetch
    <3>4. CASE ~Keyed
      BY <3>1, <3>2, <3>4, <1>5, FlashAssumption DEF Fetch
    <3> QED
      BY <3>3, <3>4
  <2> QED
    BY <2>1, <2>2
<1>6. CASE SelectDevice
  <2>1. CASE run' = Go("failed")
    BY <2>1, <1>6 DEF SelectDevice
  <2>2. CASE run' = Restarted
    BY <2>2, <1>6 DEF SelectDevice, Restarted
  <2>3. CASE run' = Go("confirm")
    BY <2>3, <1>6 DEF SelectDevice, Detected
  <2> QED
    BY <2>1, <2>2, <2>3, <1>6 DEF SelectDevice, NotMounted, ProbeWriteAccess
<1>7. CASE ResolveKeySource
  BY <1>7 DEF ResolveKeySource
<1>8. CASE RunKeyedFlash
  <2>1. CASE run' = Go("failed")
    BY <2>1, <1>8 DEF RunKeyedFlash
  <2>2. CASE run' = Restarted
    BY <2>2, <1>8 DEF RunKeyedFlash, Restarted
  <2>3. CASE run.node # Nothing /\ run' = [run EXCEPT !.single = SingleReader, !.pc = "read"]
    BY <2>3, <1>8 DEF RunKeyedFlash, SingleReader, Detected
  <2> QED
    BY <2>1, <2>2, <2>3, <1>8 DEF RunKeyedFlash, ProbeWriteAccess
<1>9. CASE ReadSource
  BY <1>9, ZenonT(60) DEF ReadSource
<1>10. CASE WarnNetworkMismatch
  <2>1. CASE run' = Go("failed")
    BY <2>1, <1>10 DEF WarnNetworkMismatch, IdentityRead, Fault
  <2>2. CASE run' # Go("failed")
    BY <2>2, <1>10 DEF WarnNetworkMismatch, IdentityRead, Fault
  <2> QED
    BY <1>10, <2>1, <2>2 DEF WarnNetworkMismatch, IdentityRead, Fault
<1>11. CASE SwapGuard
  BY <1>11 DEF SwapGuard, IdentityRead, Misreads, Fault
<1>12. CASE Confirm
  <2>1. CASE run' = Go("failed")
    BY <2>1, <1>12 DEF Confirm
  <2>2. CASE run' # Go("failed")
    BY <2>2, <1>12 DEF Confirm
  <2> QED
    BY <1>12, <2>1, <2>2 DEF Confirm
<1>13. CASE FlashImage
  BY <1>13 DEF FlashImage
<1>14. CASE VerifyReadback
  <2>1. CASE run' = Go("failed")
    BY <2>1, <1>14 DEF VerifyReadback
  <2>2. CASE run' = Go("manifest")
    BY <2>2, <1>14 DEF VerifyReadback
  <2>3. CASE run' = [run EXCEPT !.skip = TRUE, !.pc = "manifest"]
    BY <2>3, <1>14 DEF VerifyReadback
  <2> QED
    BY <1>14, <2>1, <2>2, <2>3 DEF VerifyReadback
<1>15. CASE CreateAndFormat
  <2>1. CASE run' = Go("failed")
    BY <2>1, <1>15 DEF CreateAndFormat
  <2>2. CASE run' # Go("failed")
    BY <2>2, <1>15 DEF CreateAndFormat
  <2> QED
    BY <1>15, <2>1, <2>2 DEF CreateAndFormat
<1>16. CASE WriteKeys
  BY <1>16 DEF WriteKeys, OnKeys
<1>17. CASE WriteMarker
  BY <1>17 DEF WriteMarker, OnKeys
<1>18. CASE StageConfig
  BY <1>18 DEF StageConfig
<1>19. CASE WriteManifest
  BY <1>19 DEF WriteManifest
<1>20. CASE VerifyTarget
  BY <1>20 DEF VerifyTarget
<1>21. CASE Swap
  BY <1>21 DEF Swap
<1>22. CASE Abort
  BY <1>22 DEF Abort
<1>23. CASE Place
  BY <1>23 DEF Place
<1>24. CASE Bake
  BY <1>24 DEF Bake
<1>25. CASE Advance
  BY <1>25 DEF Advance
<1>26. CASE UNCHANGED vars
  BY <1>26 DEF vars
<1> QED
  BY <1>1, <1>2, <1>3, <1>4, <1>5, <1>6, <1>7, <1>8, <1>9, <1>10, <1>11, <1>12, <1>13, <1>14, <1>15, <1>16, <1>17, <1>18, <1>19, <1>20, <1>21, <1>22, <1>23, <1>24, <1>25, <1>26 DEF Next, Step

(* What the command remembers of its source stays true.                     *)
LEMMA SourceStep ==
    ASSUME IInv, [Next]_vars PROVE SourceInv'
<1> USE DEF IInv, RunInv, TypeOK, Go, Keyed, Idle, NoRun, TargetInv, SourceInv, Writing, Reading, KeyedOnly, PlainOnly, Identity, Ptuuid, CardIdsMatch
<1>1. ASSUME NEW o \in Options, CmdFlash(o) PROVE SourceInv'
  <2>1. CASE run' = Go("failed")
    BY <2>1, <1>1 DEF CmdFlash, Started
  <2>2. CASE run' # Go("failed")
    <3> DEFINE next == [NoRun EXCEPT !.o = o, !.pc = "node"]
    <3>1. Enforced(o.from, next)
      BY <2>2, <1>1 DEF CmdFlash
    <3> HIDE DEF next
    <3>2. PICK v : /\ run' = [next EXCEPT !.img = o.from, !.verdict = v]
                   /\ o.from \in Signed \/ (v = "unsigned" /\ o.from \notin Forged)
      BY <2>2, <3>1, EnforcedTrusts
    <3> QED
      BY <3>2, <1>1 DEF CmdFlash, Started, next
  <2> QED
    BY <2>1, <2>2
<1>2. ASSUME NEW o \in Options, CmdFlashDownload(o) PROVE SourceInv'
  BY <1>2 DEF CmdFlashDownload, Started
<1>3. ASSUME NEW skip \in BOOLEAN, CmdDownload(skip) PROVE SourceInv'
  BY <1>3 DEF CmdDownload, Cached, Downloaded, DownloadBroken
<1>4. CASE CheckNode
  <2>1. CASE run' = Go("failed")
    BY <2>1, <1>4 DEF CheckNode
  <2>2. CASE run' # Go("failed")
    <3>1. PICK n \in {head, Nothing} : run' = [run EXCEPT !.node = n, !.pc = IF Keyed THEN "source" ELSE "select"]
      BY <2>2, <1>4 DEF CheckNode
    <3>2. CASE Keyed
      BY <3>1, <3>2, <1>4 DEF CheckNode
    <3>3. CASE ~Keyed
      BY <3>1, <3>3, <1>4 DEF CheckNode
    <3> QED
      BY <3>2, <3>3
  <2> QED
    BY <2>1, <2>2
<1>5. CASE Fetch
  <2>1. CASE run' = Go("failed")
    BY <2>1, <1>5 DEF Fetch
  <2>2. CASE run' # Go("failed")
    <3> DEFINE next == Go(IF Keyed THEN "reader" ELSE "write")
    <3>1. run.pc = "fetch" /\ Enforced(Release, next)
      BY <2>2, <1>5 DEF Fetch
    <3> HIDE DEF next
    <3>2. PICK v : /\ run' = [next EXCEPT !.img = Release, !.verdict = v]
                   /\ Release \in Signed \/ (v = "unsigned" /\ Release \notin Forged)
      BY <2>2, <3>1, EnforcedTrusts
    <3> USE DEF next
    <3>3. CASE Keyed
      BY <3>1, <3>2, <3>3, <1>5, FlashAssumption DEF Fetch
    <3>4. CASE ~Keyed
      BY <3>1, <3>2, <3>4, <1>5, FlashAssumption DEF Fetch
    <3> QED
      BY <3>3, <3>4
  <2> QED
    BY <2>1, <2>2
<1>6. CASE SelectDevice
  <2>1. CASE run' = Go("failed")
    BY <2>1, <1>6 DEF SelectDevice
  <2>2. CASE run' = Restarted
    BY <2>2, <1>6 DEF SelectDevice, Restarted
  <2>3. CASE run' = Go("confirm")
    BY <2>3, <1>6 DEF SelectDevice, Detected
  <2> QED
    BY <2>1, <2>2, <2>3, <1>6 DEF SelectDevice, NotMounted, ProbeWriteAccess
<1>7. CASE ResolveKeySource
  BY <1>7 DEF ResolveKeySource
<1>8. CASE RunKeyedFlash
  <2>1. CASE run' = Go("failed")
    BY <2>1, <1>8 DEF RunKeyedFlash
  <2>2. CASE run' = Restarted
    BY <2>2, <1>8 DEF RunKeyedFlash, Restarted
  <2>3. CASE run.node # Nothing /\ run' = [run EXCEPT !.single = SingleReader, !.pc = "read"]
    BY <2>3, <1>8 DEF RunKeyedFlash, SingleReader, Detected
  <2> QED
    BY <2>1, <2>2, <2>3, <1>8 DEF RunKeyedFlash, ProbeWriteAccess
<1>9. CASE ReadSource
  <2>1. ASSUME NEW ks \in KeysFrom(slot),
               run' = [run EXCEPT !.backup = Backup(slot, ks), !.src = slot, !.pc = "mismatch"]
        PROVE  SourceInv'
    BY <2>1, <1>9 DEF ReadSource
  <2>2. CASE run.single /\ run' = Go("another")
    BY <2>2, <1>9 DEF ReadSource
  <2>3. CASE run' = Go("failed")
    BY <2>3, <1>9 DEF ReadSource
  <2> QED
    BY <2>1, <2>2, <2>3, <1>9 DEF ReadSource
<1>10. CASE WarnNetworkMismatch
  <2>1. CASE run' = Go("failed")
    BY <2>1, <1>10 DEF WarnNetworkMismatch, IdentityRead, Fault
  <2>2. ASSUME run.single, NEW id, IdentityRead(slot, id),
               run' = [run EXCEPT !.pc = "swap", !.id = id, !.misread = id # Identity(slot)]
        PROVE  SourceInv'
    BY <2>2, <1>10 DEF WarnNetworkMismatch
  <2>3. CASE ~run.single /\ run' = Go("confirm")
    BY <2>3, <1>10 DEF WarnNetworkMismatch
  <2> QED
    BY <2>1, <2>2, <2>3, <1>10, Zenon DEF WarnNetworkMismatch
<1>11. CASE SwapGuard
  BY <1>11 DEF SwapGuard, IdentityRead, Misreads, Fault
<1>12. CASE Confirm
  <2>1. CASE run' = Go("failed")
    BY <2>1, <1>12 DEF Confirm
  <2>2. CASE run' # Go("failed")
    BY <2>2, <1>12 DEF Confirm
  <2> QED
    BY <1>12, <2>1, <2>2 DEF Confirm
<1>13. CASE FlashImage
  <2>1. PICK bad \in BOOLEAN, stale \in BOOLEAN :
           /\ cards' = [cards EXCEPT ![ReaderOf] = [Blank EXCEPT !.image = IF bad THEN Torn ELSE run.img]]
           /\ run' = [run EXCEPT !.pc = IF Keyed THEN "format" ELSE "readback",
                       !.view = Reread(stale, cards[ReaderOf].layout, Nothing)]
    BY <1>13 DEF FlashImage
  <2>2. CASE Keyed
    BY <2>1, <2>2, <1>13 DEF FlashImage, Blank
  <2>3. CASE ~Keyed
    BY <2>1, <2>3, <1>13 DEF FlashImage, Blank
  <2> QED
    BY <2>2, <2>3
<1>14. CASE VerifyReadback
  <2>1. CASE run' = Go("failed")
    BY <2>1, <1>14 DEF VerifyReadback
  <2>2. CASE cards[slot].image = run.img /\ run' = Go("manifest")
    BY <2>2, <1>14 DEF VerifyReadback
  <2>3. CASE run' = [run EXCEPT !.skip = TRUE, !.pc = "manifest"]
    BY <2>3, <1>14 DEF VerifyReadback
  <2> QED
    BY <1>14, <2>1, <2>2, <2>3 DEF VerifyReadback
<1>15. CASE CreateAndFormat
  <2>1. CASE run' = Go("failed")
    BY <2>1, <1>15 DEF CreateAndFormat
  <2>2. CASE run' # Go("failed")
    BY <2>2, <1>15 DEF CreateAndFormat
  <2> QED
    BY <1>15, <2>1, <2>2 DEF CreateAndFormat
<1>16. CASE WriteKeys
  <2>1. CASE cards' = cards
    BY <2>1, <1>16 DEF WriteKeys
  <2>2. CASE cards' = [cards EXCEPT ![ReaderOf] = [cards[ReaderOf] EXCEPT !.keys = run.backup.keys]]
    BY <2>2, <1>16 DEF WriteKeys
  <2> QED
    BY <2>1, <2>2, <1>16 DEF WriteKeys, OnKeys
<1>17. CASE WriteMarker
  <2>1. CASE cards' = cards
    BY <2>1, <1>17 DEF WriteMarker
  <2>2. CASE cards' = [cards EXCEPT ![ReaderOf] = [cards[ReaderOf] EXCEPT !.chain = "main", !.setup = TRUE]]
    BY <2>2, <1>17 DEF WriteMarker
  <2> QED
    BY <2>1, <2>2, <1>17 DEF WriteMarker, OnKeys
<1>18. CASE StageConfig
  BY <1>18 DEF StageConfig
<1>19. CASE WriteManifest
  BY <1>19 DEF WriteManifest
<1>20. CASE VerifyTarget
  BY <1>20 DEF VerifyTarget
<1>21. CASE Swap
  BY <1>21 DEF Swap
<1>22. CASE Abort
  BY <1>22 DEF Abort
<1>23. CASE Place
  BY <1>23 DEF Place
<1>24. CASE Bake
  BY <1>24 DEF Bake
<1>25. CASE Advance
  BY <1>25 DEF Advance
<1>26. CASE UNCHANGED vars
  BY <1>26 DEF vars
<1> QED
  BY <1>1, <1>2, <1>3, <1>4, <1>5, <1>6, <1>7, <1>8, <1>9, <1>10, <1>11, <1>12, <1>13, <1>14, <1>15, <1>16, <1>17, <1>18, <1>19, <1>20, <1>21, <1>22, <1>23, <1>24, <1>25, <1>26 DEF Next, Step

(* The keys that were read stay those of the source.                        *)
LEMMA BackupStep ==
    ASSUME IInv, [Next]_vars PROVE BackupInv'
<1> USE DEF IInv, RunInv, TypeOK, Go, Keyed, Idle, NoRun, TargetInv, SourceInv, BackupInv, ReaderOf, Writing, Reading, KeyedOnly, PlainOnly
<1>1. ASSUME NEW o \in Options, CmdFlash(o) PROVE BackupInv'
  <2>1. CASE run' = Go("failed")
    BY <2>1, <1>1 DEF CmdFlash, Started
  <2>2. CASE run' # Go("failed")
    <3> DEFINE next == [NoRun EXCEPT !.o = o, !.pc = "node"]
    <3>1. Enforced(o.from, next)
      BY <2>2, <1>1 DEF CmdFlash
    <3> HIDE DEF next
    <3>2. PICK v : /\ run' = [next EXCEPT !.img = o.from, !.verdict = v]
                   /\ o.from \in Signed \/ (v = "unsigned" /\ o.from \notin Forged)
      BY <2>2, <3>1, EnforcedTrusts
    <3> QED
      BY <3>2, <1>1 DEF CmdFlash, Started, next
  <2> QED
    BY <2>1, <2>2
<1>2. ASSUME NEW o \in Options, CmdFlashDownload(o) PROVE BackupInv'
  BY <1>2 DEF CmdFlashDownload, Started
<1>3. ASSUME NEW skip \in BOOLEAN, CmdDownload(skip) PROVE BackupInv'
  BY <1>3 DEF CmdDownload, Cached, Downloaded, DownloadBroken
<1>4. CASE CheckNode
  <2>1. CASE run' = Go("failed")
    BY <2>1, <1>4 DEF CheckNode
  <2>2. CASE run' # Go("failed")
    <3>1. PICK n \in {head, Nothing} : run' = [run EXCEPT !.node = n, !.pc = IF Keyed THEN "source" ELSE "select"]
      BY <2>2, <1>4 DEF CheckNode
    <3>2. CASE Keyed
      BY <3>1, <3>2, <1>4 DEF CheckNode
    <3>3. CASE ~Keyed
      BY <3>1, <3>3, <1>4 DEF CheckNode
    <3> QED
      BY <3>2, <3>3
  <2> QED
    BY <2>1, <2>2
<1>5. CASE Fetch
  <2>1. CASE run' = Go("failed")
    BY <2>1, <1>5 DEF Fetch
  <2>2. CASE run' # Go("failed")
    <3> DEFINE next == Go(IF Keyed THEN "reader" ELSE "write")
    <3>1. run.pc = "fetch" /\ Enforced(Release, next)
      BY <2>2, <1>5 DEF Fetch
    <3> HIDE DEF next
    <3>2. PICK v : /\ run' = [next EXCEPT !.img = Release, !.verdict = v]
                   /\ Release \in Signed \/ (v = "unsigned" /\ Release \notin Forged)
      BY <2>2, <3>1, EnforcedTrusts
    <3> USE DEF next
    <3>3. CASE Keyed
      BY <3>1, <3>2, <3>3, <1>5, FlashAssumption DEF Fetch
    <3>4. CASE ~Keyed
      BY <3>1, <3>2, <3>4, <1>5, FlashAssumption DEF Fetch
    <3> QED
      BY <3>3, <3>4
  <2> QED
    BY <2>1, <2>2
<1>6. CASE SelectDevice
  <2>1. CASE run' = Go("failed")
    BY <2>1, <1>6 DEF SelectDevice
  <2>2. CASE run' = Restarted
    BY <2>2, <1>6 DEF SelectDevice, Restarted
  <2>3. CASE run' = Go("confirm")
    BY <2>3, <1>6 DEF SelectDevice, Detected
  <2> QED
    BY <2>1, <2>2, <2>3, <1>6 DEF SelectDevice, NotMounted, ProbeWriteAccess
<1>7. CASE ResolveKeySource
  BY <1>7 DEF ResolveKeySource
<1>8. CASE RunKeyedFlash
  <2>1. CASE run' = Go("failed")
    BY <2>1, <1>8 DEF RunKeyedFlash
  <2>2. CASE run' = Restarted
    BY <2>2, <1>8 DEF RunKeyedFlash, Restarted
  <2>3. CASE run.node # Nothing /\ run' = [run EXCEPT !.single = SingleReader, !.pc = "read"]
    BY <2>3, <1>8 DEF RunKeyedFlash, SingleReader, Detected
  <2> QED
    BY <2>1, <2>2, <2>3, <1>8 DEF RunKeyedFlash, ProbeWriteAccess
<1>9. CASE ReadSource
  <2>1. ASSUME NEW ks \in KeysFrom(slot),
               run' = [run EXCEPT !.backup = Backup(slot, ks), !.src = slot, !.pc = "mismatch"]
        PROVE  BackupInv'
    BY <2>1, <1>9 DEF ReadSource, KeysFrom, RussignolKeys, Backup
  <2>2. CASE run.single /\ run' = Go("another")
    BY <2>2, <1>9 DEF ReadSource
  <2>3. CASE run' = Go("failed")
    BY <2>3, <1>9 DEF ReadSource
  <2> QED
    BY <2>1, <2>2, <2>3, <1>9 DEF ReadSource
<1>10. CASE WarnNetworkMismatch
  <2>1. CASE run' = Go("failed")
    BY <2>1, <1>10 DEF WarnNetworkMismatch, IdentityRead, Fault
  <2>2. ASSUME run.single, NEW id, IdentityRead(slot, id),
               run' = [run EXCEPT !.pc = "swap", !.id = id, !.misread = id # Identity(slot)]
        PROVE  BackupInv'
    BY <2>2, <1>10 DEF WarnNetworkMismatch
  <2>3. CASE ~run.single /\ run' = Go("confirm")
    BY <2>3, <1>10 DEF WarnNetworkMismatch
  <2> QED
    BY <2>1, <2>2, <2>3, <1>10, Zenon DEF WarnNetworkMismatch
<1>11. CASE SwapGuard
  BY <1>11 DEF SwapGuard, IdentityRead, Misreads, Fault
<1>12. CASE Confirm
  <2>1. CASE run' = Go("failed")
    BY <2>1, <1>12 DEF Confirm
  <2>2. CASE run' # Go("failed")
    BY <2>2, <1>12 DEF Confirm
  <2> QED
    BY <1>12, <2>1, <2>2 DEF Confirm
<1>13. CASE FlashImage
  <2>1. PICK bad \in BOOLEAN, stale \in BOOLEAN :
           /\ cards' = [cards EXCEPT ![ReaderOf] = [Blank EXCEPT !.image = IF bad THEN Torn ELSE run.img]]
           /\ run' = [run EXCEPT !.pc = IF Keyed THEN "format" ELSE "readback",
                       !.view = Reread(stale, cards[ReaderOf].layout, Nothing)]
    BY <1>13 DEF FlashImage
  <2>2. CASE Keyed
    BY <2>1, <2>2, <1>13 DEF FlashImage, Blank
  <2>3. CASE ~Keyed
    BY <2>1, <2>3, <1>13 DEF FlashImage, Blank
  <2> QED
    BY <2>2, <2>3
<1>14. CASE VerifyReadback
  <2>1. CASE run' = Go("failed")
    BY <2>1, <1>14 DEF VerifyReadback
  <2>2. CASE cards[slot].image = run.img /\ run' = Go("manifest")
    BY <2>2, <1>14 DEF VerifyReadback
  <2>3. CASE run' = [run EXCEPT !.skip = TRUE, !.pc = "manifest"]
    BY <2>3, <1>14 DEF VerifyReadback
  <2> QED
    BY <1>14, <2>1, <2>2, <2>3 DEF VerifyReadback
<1>15. CASE CreateAndFormat
  <2>1. CASE run' = Go("failed")
    BY <2>1, <1>15 DEF CreateAndFormat
  <2>2. CASE run' # Go("failed")
    BY <2>2, <1>15 DEF CreateAndFormat
  <2> QED
    BY <1>15, <2>1, <2>2 DEF CreateAndFormat
<1>16. CASE WriteKeys
  <2>1. CASE cards' = cards
    BY <2>1, <1>16 DEF WriteKeys
  <2>2. CASE cards' = [cards EXCEPT ![ReaderOf] = [cards[ReaderOf] EXCEPT !.keys = run.backup.keys]]
    BY <2>2, <1>16 DEF WriteKeys
  <2> QED
    BY <2>1, <2>2, <1>16 DEF WriteKeys, OnKeys
<1>17. CASE WriteMarker
  <2>1. CASE cards' = cards
    BY <2>1, <1>17 DEF WriteMarker
  <2>2. CASE cards' = [cards EXCEPT ![ReaderOf] = [cards[ReaderOf] EXCEPT !.chain = "main", !.setup = TRUE]]
    BY <2>2, <1>17 DEF WriteMarker
  <2> QED
    BY <2>1, <2>2, <1>17 DEF WriteMarker, OnKeys
<1>18. CASE StageConfig
  BY <1>18 DEF StageConfig
<1>19. CASE WriteManifest
  BY <1>19 DEF WriteManifest
<1>20. CASE VerifyTarget
  BY <1>20 DEF VerifyTarget
<1>21. CASE Swap
  BY <1>21 DEF Swap
<1>22. CASE Abort
  BY <1>22 DEF Abort
<1>23. CASE Place
  BY <1>23 DEF Place
<1>24. CASE Bake
  BY <1>24 DEF Bake
<1>25. CASE Advance
  BY <1>25 DEF Advance
<1>26. CASE UNCHANGED vars
  BY <1>26 DEF vars
<1> QED
  BY <1>1, <1>2, <1>3, <1>4, <1>5, <1>6, <1>7, <1>8, <1>9, <1>10, <1>11, <1>12, <1>13, <1>14, <1>15, <1>16, <1>17, <1>18, <1>19, <1>20, <1>21, <1>22, <1>23, <1>24, <1>25, <1>26 DEF Next, Step

(* The card holds what the steps so far have written.                       *)
LEMMA WrittenStep ==
    ASSUME IInv, [Next]_vars PROVE WrittenInv'
<1> USE DEF IInv, RunInv, TypeOK, Go, Keyed, Idle, NoRun, TargetInv, WrittenInv, KeysWritten, MarkerWritten, ReaderOf, Writing, Reading, KeyedOnly, PlainOnly, CardOK, Blank
<1>1. ASSUME NEW o \in Options, CmdFlash(o) PROVE WrittenInv'
  <2>1. CASE run' = Go("failed")
    BY <2>1, <1>1 DEF CmdFlash, Started
  <2>2. CASE run' # Go("failed")
    <3> DEFINE next == [NoRun EXCEPT !.o = o, !.pc = "node"]
    <3>1. Enforced(o.from, next)
      BY <2>2, <1>1 DEF CmdFlash
    <3> HIDE DEF next
    <3>2. PICK v : /\ run' = [next EXCEPT !.img = o.from, !.verdict = v]
                   /\ o.from \in Signed \/ (v = "unsigned" /\ o.from \notin Forged)
      BY <2>2, <3>1, EnforcedTrusts
    <3> QED
      BY <3>2, <1>1 DEF CmdFlash, Started, next
  <2> QED
    BY <2>1, <2>2
<1>2. ASSUME NEW o \in Options, CmdFlashDownload(o) PROVE WrittenInv'
  BY <1>2 DEF CmdFlashDownload, Started
<1>3. ASSUME NEW skip \in BOOLEAN, CmdDownload(skip) PROVE WrittenInv'
  BY <1>3 DEF CmdDownload, Cached, Downloaded, DownloadBroken
<1>4. CASE CheckNode
  <2>1. CASE run' = Go("failed")
    BY <2>1, <1>4 DEF CheckNode
  <2>2. CASE run' # Go("failed")
    <3>1. PICK n \in {head, Nothing} : run' = [run EXCEPT !.node = n, !.pc = IF Keyed THEN "source" ELSE "select"]
      BY <2>2, <1>4 DEF CheckNode
    <3>2. CASE Keyed
      BY <3>1, <3>2, <1>4 DEF CheckNode
    <3>3. CASE ~Keyed
      BY <3>1, <3>3, <1>4 DEF CheckNode
    <3> QED
      BY <3>2, <3>3
  <2> QED
    BY <2>1, <2>2
<1>5. CASE Fetch
  <2>1. CASE run' = Go("failed")
    BY <2>1, <1>5 DEF Fetch
  <2>2. CASE run' # Go("failed")
    <3> DEFINE next == Go(IF Keyed THEN "reader" ELSE "write")
    <3>1. run.pc = "fetch" /\ Enforced(Release, next)
      BY <2>2, <1>5 DEF Fetch
    <3> HIDE DEF next
    <3>2. PICK v : /\ run' = [next EXCEPT !.img = Release, !.verdict = v]
                   /\ Release \in Signed \/ (v = "unsigned" /\ Release \notin Forged)
      BY <2>2, <3>1, EnforcedTrusts
    <3> USE DEF next
    <3>3. CASE Keyed
      BY <3>1, <3>2, <3>3, <1>5, FlashAssumption DEF Fetch
    <3>4. CASE ~Keyed
      BY <3>1, <3>2, <3>4, <1>5, FlashAssumption DEF Fetch
    <3> QED
      BY <3>3, <3>4
  <2> QED
    BY <2>1, <2>2
<1>6. CASE SelectDevice
  <2>1. CASE run' = Go("failed")
    BY <2>1, <1>6 DEF SelectDevice
  <2>2. CASE run' = Restarted
    BY <2>2, <1>6 DEF SelectDevice, Restarted
  <2>3. CASE run' = Go("confirm")
    BY <2>3, <1>6 DEF SelectDevice, Detected
  <2> QED
    BY <2>1, <2>2, <2>3, <1>6 DEF SelectDevice, NotMounted, ProbeWriteAccess
<1>7. CASE ResolveKeySource
  BY <1>7 DEF ResolveKeySource
<1>8. CASE RunKeyedFlash
  <2>1. CASE run' = Go("failed")
    BY <2>1, <1>8 DEF RunKeyedFlash
  <2>2. CASE run' = Restarted
    BY <2>2, <1>8 DEF RunKeyedFlash, Restarted
  <2>3. CASE run.node # Nothing /\ run' = [run EXCEPT !.single = SingleReader, !.pc = "read"]
    BY <2>3, <1>8 DEF RunKeyedFlash, SingleReader, Detected
  <2> QED
    BY <2>1, <2>2, <2>3, <1>8 DEF RunKeyedFlash, ProbeWriteAccess
<1>9. CASE ReadSource
  <2>1. ASSUME NEW ks \in KeysFrom(slot),
               run' = [run EXCEPT !.backup = Backup(slot, ks), !.src = slot, !.pc = "mismatch"]
        PROVE  WrittenInv'
    BY <2>1, <1>9 DEF ReadSource
  <2>2. CASE run.single /\ run' = Go("another")
    BY <2>2, <1>9 DEF ReadSource
  <2>3. CASE run' = Go("failed")
    BY <2>3, <1>9 DEF ReadSource
  <2> QED
    BY <2>1, <2>2, <2>3, <1>9 DEF ReadSource
<1>10. CASE WarnNetworkMismatch
  <2>1. CASE run' = Go("failed")
    BY <2>1, <1>10 DEF WarnNetworkMismatch, IdentityRead, Fault
  <2>2. ASSUME run.single, NEW id, IdentityRead(slot, id),
               run' = [run EXCEPT !.pc = "swap", !.id = id, !.misread = id # Identity(slot)]
        PROVE  WrittenInv'
    BY <2>2, <1>10 DEF WarnNetworkMismatch
  <2>3. CASE ~run.single /\ run' = Go("confirm")
    BY <2>3, <1>10 DEF WarnNetworkMismatch
  <2> QED
    BY <2>1, <2>2, <2>3, <1>10, Zenon DEF WarnNetworkMismatch
<1>11. CASE SwapGuard
  BY <1>11 DEF SwapGuard, IdentityRead, Misreads, Fault
<1>12. CASE Confirm
  <2>1. CASE run' = Go("failed")
    BY <2>1, <1>12 DEF Confirm
  <2>2. CASE run' # Go("failed")
    BY <2>2, <1>12 DEF Confirm
  <2> QED
    BY <1>12, <2>1, <2>2 DEF Confirm
<1>13. CASE FlashImage
  <2>1. PICK bad \in BOOLEAN, stale \in BOOLEAN :
           /\ cards' = [cards EXCEPT ![ReaderOf] = [Blank EXCEPT !.image = IF bad THEN Torn ELSE run.img]]
           /\ run' = [run EXCEPT !.pc = IF Keyed THEN "format" ELSE "readback",
                       !.view = Reread(stale, cards[ReaderOf].layout, Nothing)]
    BY <1>13 DEF FlashImage
  <2>2. CASE Keyed
    BY <2>1, <2>2, <1>13 DEF FlashImage, Blank
  <2>3. CASE ~Keyed
    BY <2>1, <2>3, <1>13 DEF FlashImage, Blank
  <2> QED
    BY <2>2, <2>3
<1>14. CASE VerifyReadback
  <2>1. CASE run' = Go("failed")
    BY <2>1, <1>14 DEF VerifyReadback
  <2>2. CASE cards[slot].image = run.img /\ run' = Go("manifest")
    BY <2>2, <1>14 DEF VerifyReadback
  <2>3. CASE run' = [run EXCEPT !.skip = TRUE, !.pc = "manifest"]
    BY <2>3, <1>14 DEF VerifyReadback
  <2> QED
    BY <1>14, <2>1, <2>2, <2>3 DEF VerifyReadback
<1>15. CASE CreateAndFormat
  <2>1. CASE run' = Go("failed")
    BY <2>1, <1>15 DEF CreateAndFormat
  <2>2. CASE run' # Go("failed")
    BY <2>2, <1>15 DEF CreateAndFormat
  <2> QED
    BY <1>15, <2>1, <2>2 DEF CreateAndFormat
<1>16. CASE WriteKeys
  <2>1. CASE cards' = cards
    BY <2>1, <1>16 DEF WriteKeys
  <2>2. CASE cards' = [cards EXCEPT ![ReaderOf] = [cards[ReaderOf] EXCEPT !.keys = run.backup.keys]]
    BY <2>2, <1>16 DEF WriteKeys
  <2> QED
    BY <2>1, <2>2, <1>16 DEF WriteKeys, OnKeys
<1>17. CASE WriteMarker
  <2>1. CASE cards' = cards
    BY <2>1, <1>17 DEF WriteMarker
  <2>2. CASE cards' = [cards EXCEPT ![ReaderOf] = [cards[ReaderOf] EXCEPT !.chain = "main", !.setup = TRUE]]
    BY <2>2, <1>17 DEF WriteMarker
  <2> QED
    BY <2>1, <2>2, <1>17 DEF WriteMarker, OnKeys
<1>18. CASE StageConfig
  BY <1>18 DEF StageConfig
<1>19. CASE WriteManifest
  BY <1>19 DEF WriteManifest
<1>20. CASE VerifyTarget
  BY <1>20 DEF VerifyTarget
<1>21. CASE Swap
  BY <1>21 DEF Swap
<1>22. CASE Abort
  BY <1>22 DEF Abort
<1>23. CASE Place
  BY <1>23 DEF Place
<1>24. CASE Bake
  BY <1>24 DEF Bake
<1>25. CASE Advance
  BY <1>25 DEF Advance
<1>26. CASE UNCHANGED vars
  BY <1>26 DEF vars
<1> QED
  BY <1>1, <1>2, <1>3, <1>4, <1>5, <1>6, <1>7, <1>8, <1>9, <1>10, <1>11, <1>12, <1>13, <1>14, <1>15, <1>16, <1>17, <1>18, <1>19, <1>20, <1>21, <1>22, <1>23, <1>24, <1>25, <1>26 DEF Next, Step

(* Cards stay cards: only what is an image, or no longer one, is written.   *)
LEMMA CardsStep ==
    ASSUME IInv, [Next]_vars PROVE CardsOK'
<1> USE DEF IInv, RunInv, TypeOK, Go, Keyed, Idle, NoRun, CardsOK, ImageInv, TargetInv, ReaderOf, CardOK, Blank, Chosen, Writing, Reading, KeyedOnly
<1>1. ASSUME NEW o \in Options, CmdFlash(o) PROVE CardsOK'
  BY <1>1 DEF CmdFlash, Started, Enforced, SignatureVerdict
<1>2. ASSUME NEW o \in Options, CmdFlashDownload(o) PROVE CardsOK'
  BY <1>2 DEF CmdFlashDownload, Started
<1>3. ASSUME NEW skip \in BOOLEAN, CmdDownload(skip) PROVE CardsOK'
  BY <1>3 DEF CmdDownload, Cached, Downloaded, DownloadBroken
<1>4. CASE CheckNode
  BY <1>4 DEF CheckNode
<1>5. CASE Fetch
  BY <1>5 DEF Fetch, Cached, Downloaded, DownloadBroken, Enforced, SignatureVerdict
<1>6. CASE SelectDevice
  BY <1>6 DEF SelectDevice, NotMounted, ProbeWriteAccess, Detected
<1>7. CASE ResolveKeySource
  BY <1>7 DEF ResolveKeySource
<1>8. CASE RunKeyedFlash
  BY <1>8 DEF RunKeyedFlash, ProbeWriteAccess, SingleReader, Detected
<1>9. CASE ReadSource
  BY <1>9 DEF ReadSource
<1>10. CASE WarnNetworkMismatch
  BY <1>10 DEF WarnNetworkMismatch, IdentityRead, Fault
<1>11. CASE SwapGuard
  BY <1>11 DEF SwapGuard, IdentityRead, Misreads, Fault
<1>12. CASE Confirm
  BY <1>12 DEF Confirm
<1>13. CASE FlashImage
  <2>1. PICK bad \in BOOLEAN, stale \in BOOLEAN :
           /\ cards' = [cards EXCEPT ![ReaderOf] = [Blank EXCEPT !.image = IF bad THEN Torn ELSE run.img]]
           /\ run' = [run EXCEPT !.pc = IF Keyed THEN "format" ELSE "readback",
                       !.view = Reread(stale, cards[ReaderOf].layout, Nothing)]
    BY <1>13 DEF FlashImage
  <2>2. CASE Keyed
    BY <2>1, <2>2, <1>13 DEF FlashImage, Blank
  <2>3. CASE ~Keyed
    BY <2>1, <2>3, <1>13 DEF FlashImage, Blank
  <2> QED
    BY <2>2, <2>3
<1>14. CASE VerifyReadback
  BY <1>14 DEF VerifyReadback
<1>15. CASE CreateAndFormat
  BY <1>15 DEF CreateAndFormat
<1>16. CASE WriteKeys
  <2>1. CASE cards' = cards
    BY <2>1, <1>16 DEF WriteKeys
  <2>2. CASE cards' = [cards EXCEPT ![ReaderOf] = [cards[ReaderOf] EXCEPT !.keys = run.backup.keys]]
    BY <2>2, <1>16 DEF WriteKeys
  <2> QED
    BY <2>1, <2>2, <1>16 DEF WriteKeys, OnKeys
<1>17. CASE WriteMarker
  <2>1. CASE cards' = cards
    BY <2>1, <1>17 DEF WriteMarker
  <2>2. CASE cards' = [cards EXCEPT ![ReaderOf] = [cards[ReaderOf] EXCEPT !.chain = "main", !.setup = TRUE]]
    BY <2>2, <1>17 DEF WriteMarker
  <2> QED
    BY <2>1, <2>2, <1>17 DEF WriteMarker, OnKeys
<1>18. CASE StageConfig
  BY <1>18 DEF StageConfig
<1>19. CASE WriteManifest
  BY <1>19 DEF WriteManifest
<1>20. CASE VerifyTarget
  BY <1>20 DEF VerifyTarget
<1>21. CASE Swap
  BY <1>21 DEF Swap
<1>22. CASE Abort
  BY <1>22 DEF Abort
<1>23. CASE Place
  BY <1>23 DEF Place
<1>24. CASE Bake
  BY <1>24 DEF Bake
<1>25. CASE Advance
  BY <1>25 DEF Advance
<1>26. CASE UNCHANGED vars
  BY <1>26 DEF vars
<1> QED
  BY <1>1, <1>2, <1>3, <1>4, <1>5, <1>6, <1>7, <1>8, <1>9, <1>10, <1>11, <1>12, <1>13, <1>14, <1>15, <1>16, <1>17, <1>18, <1>19, <1>20, <1>21, <1>22, <1>23, <1>24, <1>25, <1>26 DEF Next, Step

(* Levels, faults and commands stay within their bounds.                    *)
LEMMA CountsStep ==
    ASSUME IInv, [Next]_vars PROVE CountsOK'
<1> USE DEF IInv, TypeOK, CountsOK, Fault
<1>1. ASSUME NEW o \in Options, CmdFlash(o) PROVE CountsOK'
  BY <1>1, FlashAssumption DEF CmdFlash, Started, Enforced, SignatureVerdict
<1>2. ASSUME NEW o \in Options, CmdFlashDownload(o) PROVE CountsOK'
  BY <1>2, FlashAssumption DEF CmdFlashDownload, Started
<1>3. ASSUME NEW skip \in BOOLEAN, CmdDownload(skip) PROVE CountsOK'
  BY <1>3, FlashAssumption DEF CmdDownload, Cached, Downloaded, DownloadBroken
<1>4. CASE CheckNode
  BY <1>4, FlashAssumption DEF CheckNode
<1>5. CASE Fetch
  BY <1>5, FlashAssumption DEF Fetch, Cached, Downloaded, DownloadBroken, Enforced, SignatureVerdict
<1>6. CASE SelectDevice
  BY <1>6, FlashAssumption DEF SelectDevice, NotMounted, ProbeWriteAccess, Detected
<1>7. CASE ResolveKeySource
  BY <1>7, FlashAssumption DEF ResolveKeySource
<1>8. CASE RunKeyedFlash
  BY <1>8, FlashAssumption DEF RunKeyedFlash, ProbeWriteAccess, SingleReader, Detected
<1>9. CASE ReadSource
  BY <1>9, FlashAssumption DEF ReadSource
<1>10. CASE WarnNetworkMismatch
  <2>1. UNCHANGED faults \/ Fault
    BY <1>10, Zenon DEF WarnNetworkMismatch, IdentityRead
  <2>2. UNCHANGED <<head, runs>>
    BY <1>10 DEF WarnNetworkMismatch
  <2> QED
    BY <2>1, <2>2, FlashAssumption DEF Fault
<1>11. CASE SwapGuard
  <2>1. UNCHANGED faults \/ Fault
    BY <1>11, Zenon DEF SwapGuard, IdentityRead
  <2>2. UNCHANGED <<head, runs>>
    BY <1>11 DEF SwapGuard
  <2> QED
    BY <2>1, <2>2, FlashAssumption DEF Fault
<1>12. CASE Confirm
  BY <1>12, FlashAssumption DEF Confirm
<1>13. CASE FlashImage
  BY <1>13, FlashAssumption DEF FlashImage
<1>14. CASE VerifyReadback
  BY <1>14, FlashAssumption DEF VerifyReadback
<1>15. CASE CreateAndFormat
  BY <1>15, FlashAssumption DEF CreateAndFormat
<1>16. CASE WriteKeys
  BY <1>16, FlashAssumption DEF WriteKeys, OnKeys
<1>17. CASE WriteMarker
  BY <1>17, FlashAssumption DEF WriteMarker, OnKeys
<1>18. CASE StageConfig
  BY <1>18, FlashAssumption DEF StageConfig
<1>19. CASE WriteManifest
  BY <1>19, FlashAssumption DEF WriteManifest
<1>20. CASE VerifyTarget
  BY <1>20, FlashAssumption DEF VerifyTarget
<1>21. CASE Swap
  BY <1>21, FlashAssumption DEF Swap
<1>22. CASE Abort
  BY <1>22, FlashAssumption DEF Abort
<1>23. CASE Place
  BY <1>23, FlashAssumption DEF Place
<1>24. CASE Bake
  BY <1>24, FlashAssumption DEF Bake
<1>25. CASE Advance
  BY <1>25, FlashAssumption DEF Advance
<1>26. CASE UNCHANGED vars
  BY <1>26, FlashAssumption DEF vars
<1> QED
  BY <1>1, <1>2, <1>3, <1>4, <1>5, <1>6, <1>7, <1>8, <1>9, <1>10, <1>11, <1>12, <1>13, <1>14, <1>15, <1>16, <1>17, <1>18, <1>19, <1>20, <1>21, <1>22, <1>23, <1>24, <1>25, <1>26 DEF Next, Step

(* No card is in two readers, and the command is at one of its steps.       *)
LEMMA NamesStep ==
    ASSUME IInv, [Next]_vars PROVE NamesOK'
<1> USE DEF IInv, RunInv, TypeOK, Go, Keyed, Idle, NoRun, NamesOK, Steps
<1>1. ASSUME NEW o \in Options, CmdFlash(o) PROVE NamesOK'
  <2>1. CASE run' = Go("failed")
    BY <2>1, <1>1 DEF CmdFlash, Started
  <2>2. CASE run' # Go("failed")
    <3> DEFINE next == [NoRun EXCEPT !.o = o, !.pc = "node"]
    <3>1. Enforced(o.from, next)
      BY <2>2, <1>1 DEF CmdFlash
    <3> HIDE DEF next
    <3>2. PICK v : /\ run' = [next EXCEPT !.img = o.from, !.verdict = v]
                   /\ o.from \in Signed \/ (v = "unsigned" /\ o.from \notin Forged)
      BY <2>2, <3>1, EnforcedTrusts
    <3> QED
      BY <3>2, <1>1 DEF CmdFlash, Started, next
  <2> QED
    BY <2>1, <2>2
<1>2. ASSUME NEW o \in Options, CmdFlashDownload(o) PROVE NamesOK'
  BY <1>2 DEF CmdFlashDownload, Started
<1>3. ASSUME NEW skip \in BOOLEAN, CmdDownload(skip) PROVE NamesOK'
  BY <1>3 DEF CmdDownload, Cached, Downloaded, DownloadBroken
<1>4. CASE CheckNode
  <2>1. CASE run' = Go("failed")
    BY <2>1, <1>4 DEF CheckNode
  <2>2. CASE run' # Go("failed")
    <3>1. PICK n \in {head, Nothing} : run' = [run EXCEPT !.node = n, !.pc = IF Keyed THEN "source" ELSE "select"]
      BY <2>2, <1>4 DEF CheckNode
    <3>2. CASE Keyed
      BY <3>1, <3>2, <1>4 DEF CheckNode
    <3>3. CASE ~Keyed
      BY <3>1, <3>3, <1>4 DEF CheckNode
    <3> QED
      BY <3>2, <3>3
  <2> QED
    BY <2>1, <2>2
<1>5. CASE Fetch
  <2>1. CASE run' = Go("failed")
    BY <2>1, <1>5 DEF Fetch, Cached, Downloaded, DownloadBroken
  <2>2. CASE run' # Go("failed")
    <3> DEFINE next == Go(IF Keyed THEN "reader" ELSE "write")
    <3>1. run.pc = "fetch" /\ Enforced(Release, next)
      BY <2>2, <1>5 DEF Fetch, Cached, Downloaded, DownloadBroken
    <3> HIDE DEF next
    <3>2. PICK v : /\ run' = [next EXCEPT !.img = Release, !.verdict = v]
                   /\ Release \in Signed \/ (v = "unsigned" /\ Release \notin Forged)
      BY <2>2, <3>1, EnforcedTrusts
    <3> USE DEF next
    <3>3. CASE Keyed
      BY <3>1, <3>2, <3>3, <1>5, FlashAssumption DEF Fetch, Cached, Downloaded, DownloadBroken
    <3>4. CASE ~Keyed
      BY <3>1, <3>2, <3>4, <1>5, FlashAssumption DEF Fetch, Cached, Downloaded, DownloadBroken
    <3> QED
      BY <3>3, <3>4
  <2> QED
    BY <2>1, <2>2
<1>6. CASE SelectDevice
  <2>1. CASE run' = Go("failed")
    BY <2>1, <1>6 DEF SelectDevice
  <2>2. CASE run' = Restarted
    BY <2>2, <1>6 DEF SelectDevice, Restarted
  <2>3. CASE run' = Go("confirm")
    BY <2>3, <1>6 DEF SelectDevice, Detected
  <2> QED
    BY <2>1, <2>2, <2>3, <1>6 DEF SelectDevice, NotMounted, ProbeWriteAccess
<1>7. CASE ResolveKeySource
  BY <1>7 DEF ResolveKeySource
<1>8. CASE RunKeyedFlash
  <2>1. CASE run' = Go("failed")
    BY <2>1, <1>8 DEF RunKeyedFlash
  <2>2. CASE run' = Restarted
    BY <2>2, <1>8 DEF RunKeyedFlash, Restarted
  <2>3. CASE run.node # Nothing /\ run' = [run EXCEPT !.single = SingleReader, !.pc = "read"]
    BY <2>3, <1>8 DEF RunKeyedFlash, SingleReader, Detected
  <2> QED
    BY <2>1, <2>2, <2>3, <1>8 DEF RunKeyedFlash, ProbeWriteAccess
<1>9. CASE ReadSource
  <2>1. ASSUME NEW ks \in KeysFrom(slot),
               run' = [run EXCEPT !.backup = Backup(slot, ks), !.src = slot, !.pc = "mismatch"]
        PROVE  NamesOK'
    BY <2>1, <1>9 DEF ReadSource
  <2>2. CASE run.single /\ run' = Go("another")
    BY <2>2, <1>9 DEF ReadSource
  <2>3. CASE run' = Go("failed")
    BY <2>3, <1>9 DEF ReadSource
  <2> QED
    BY <2>1, <2>2, <2>3, <1>9 DEF ReadSource
<1>10. CASE WarnNetworkMismatch
  <2>1. CASE run' = Go("failed")
    BY <2>1, <1>10 DEF WarnNetworkMismatch, IdentityRead, Fault
  <2>2. ASSUME run.single, NEW id, IdentityRead(slot, id),
               run' = [run EXCEPT !.pc = "swap", !.id = id, !.misread = id # Identity(slot)]
        PROVE  NamesOK'
    BY <2>2, <1>10 DEF WarnNetworkMismatch
  <2>3. CASE ~run.single /\ run' = Go("confirm")
    BY <2>3, <1>10 DEF WarnNetworkMismatch
  <2> QED
    BY <2>1, <2>2, <2>3, <1>10, Zenon DEF WarnNetworkMismatch
<1>11. CASE SwapGuard
  BY <1>11 DEF SwapGuard, IdentityRead, Misreads, Fault
<1>12. CASE Confirm
  <2>1. CASE run' = Go("failed")
    BY <2>1, <1>12 DEF Confirm
  <2>2. CASE run' # Go("failed")
    BY <2>2, <1>12 DEF Confirm
  <2> QED
    BY <1>12, <2>1, <2>2 DEF Confirm
<1>13. CASE FlashImage
  <2>1. PICK bad \in BOOLEAN, stale \in BOOLEAN :
           /\ cards' = [cards EXCEPT ![ReaderOf] = [Blank EXCEPT !.image = IF bad THEN Torn ELSE run.img]]
           /\ run' = [run EXCEPT !.pc = IF Keyed THEN "format" ELSE "readback",
                       !.view = Reread(stale, cards[ReaderOf].layout, Nothing)]
    BY <1>13 DEF FlashImage
  <2>2. CASE Keyed
    BY <2>1, <2>2, <1>13 DEF FlashImage, Blank
  <2>3. CASE ~Keyed
    BY <2>1, <2>3, <1>13 DEF FlashImage, Blank
  <2> QED
    BY <2>2, <2>3
<1>14. CASE VerifyReadback
  <2>1. CASE run' = Go("failed")
    BY <2>1, <1>14 DEF VerifyReadback
  <2>2. CASE cards[slot].image = run.img /\ run' = Go("manifest")
    BY <2>2, <1>14 DEF VerifyReadback
  <2>3. CASE run' = [run EXCEPT !.skip = TRUE, !.pc = "manifest"]
    BY <2>3, <1>14 DEF VerifyReadback
  <2> QED
    BY <1>14, <2>1, <2>2, <2>3 DEF VerifyReadback
<1>15. CASE CreateAndFormat
  <2>1. CASE run' = Go("failed")
    BY <2>1, <1>15 DEF CreateAndFormat
  <2>2. CASE run' # Go("failed")
    BY <2>2, <1>15 DEF CreateAndFormat
  <2> QED
    BY <1>15, <2>1, <2>2 DEF CreateAndFormat
<1>16. CASE WriteKeys
  <2>1. CASE cards' = cards
    BY <2>1, <1>16 DEF WriteKeys
  <2>2. CASE cards' = [cards EXCEPT ![ReaderOf] = [cards[ReaderOf] EXCEPT !.keys = run.backup.keys]]
    BY <2>2, <1>16 DEF WriteKeys
  <2> QED
    BY <2>1, <2>2, <1>16 DEF WriteKeys, OnKeys
<1>17. CASE WriteMarker
  <2>1. CASE cards' = cards
    BY <2>1, <1>17 DEF WriteMarker
  <2>2. CASE cards' = [cards EXCEPT ![ReaderOf] = [cards[ReaderOf] EXCEPT !.chain = "main", !.setup = TRUE]]
    BY <2>2, <1>17 DEF WriteMarker
  <2> QED
    BY <2>1, <2>2, <1>17 DEF WriteMarker, OnKeys
<1>18. CASE StageConfig
  BY <1>18 DEF StageConfig
<1>19. CASE WriteManifest
  BY <1>19 DEF WriteManifest
<1>20. CASE VerifyTarget
  BY <1>20 DEF VerifyTarget
<1>21. CASE Swap
  BY <1>21 DEF Swap
<1>22. CASE Abort
  BY <1>22 DEF Abort
<1>23. CASE Place
  BY <1>23 DEF Place
<1>24. CASE Bake
  BY <1>24 DEF Bake
<1>25. CASE Advance
  BY <1>25 DEF Advance
<1>26. CASE UNCHANGED vars
  BY <1>26 DEF vars
<1> QED
  BY <1>1, <1>2, <1>3, <1>4, <1>5, <1>6, <1>7, <1>8, <1>9, <1>10, <1>11, <1>12, <1>13, <1>14, <1>15, <1>16, <1>17, <1>18, <1>19, <1>20, <1>21, <1>22, <1>23, <1>24, <1>25, <1>26 DEF Next, Step

-----------------------------------------------------------------------------
(* A command ends as done after verify_target only.                         *)
LEMMA OnlyVerifyEnds ==
    ASSUME RunInv, Next, run'.pc = "done", run.pc # "done"
    PROVE  VerifyTarget
<1> USE DEF RunInv, Go, NoRun
<1>1. ASSUME NEW o \in Options, CmdFlash(o) PROVE VerifyTarget
  <2>1. CASE run' = Go("failed")
    BY <2>1, <1>1 DEF CmdFlash, Started
  <2>2. CASE run' # Go("failed")
    <3> DEFINE next == [NoRun EXCEPT !.o = o, !.pc = "node"]
    <3>1. Enforced(o.from, next)
      BY <2>2, <1>1 DEF CmdFlash
    <3> HIDE DEF next
    <3>2. PICK v : /\ run' = [next EXCEPT !.img = o.from, !.verdict = v]
                   /\ o.from \in Signed \/ (v = "unsigned" /\ o.from \notin Forged)
      BY <2>2, <3>1, EnforcedTrusts
    <3> QED
      BY <3>2, <1>1 DEF CmdFlash, Started, next
  <2> QED
    BY <2>1, <2>2
<1>2. ASSUME NEW o \in Options, CmdFlashDownload(o) PROVE VerifyTarget
  BY <1>2 DEF CmdFlashDownload, Started
<1>3. ASSUME NEW skip \in BOOLEAN, CmdDownload(skip) PROVE VerifyTarget
  BY <1>3 DEF CmdDownload, Cached, Downloaded, DownloadBroken
<1>4. CASE CheckNode
  BY <1>4 DEF CheckNode
<1>5. CASE Fetch
  <2>1. CASE run' = Go("failed")
    BY <2>1, <1>5 DEF Fetch
  <2>2. CASE run' # Go("failed")
    <3> DEFINE next == Go(IF Keyed THEN "reader" ELSE "write")
    <3>1. run.pc = "fetch" /\ Enforced(Release, next)
      BY <2>2, <1>5 DEF Fetch
    <3> HIDE DEF next
    <3>2. PICK v : /\ run' = [next EXCEPT !.img = Release, !.verdict = v]
                   /\ Release \in Signed \/ (v = "unsigned" /\ Release \notin Forged)
      BY <2>2, <3>1, EnforcedTrusts
    <3> USE DEF next
    <3>3. CASE Keyed
      BY <3>1, <3>2, <3>3, <1>5, FlashAssumption DEF Fetch
    <3>4. CASE ~Keyed
      BY <3>1, <3>2, <3>4, <1>5, FlashAssumption DEF Fetch
    <3> QED
      BY <3>3, <3>4
  <2> QED
    BY <2>1, <2>2
<1>6. CASE SelectDevice
  <2>1. CASE run' = Go("failed")
    BY <2>1, <1>6 DEF SelectDevice
  <2>2. CASE run' = Restarted
    BY <2>2, <1>6 DEF SelectDevice, Restarted
  <2>3. CASE run' = Go("confirm")
    BY <2>3, <1>6 DEF SelectDevice, Detected
  <2> QED
    BY <2>1, <2>2, <2>3, <1>6 DEF SelectDevice, NotMounted, ProbeWriteAccess
<1>7. CASE ResolveKeySource
  BY <1>7 DEF ResolveKeySource
<1>8. CASE RunKeyedFlash
  <2>1. CASE run' = Go("failed")
    BY <2>1, <1>8 DEF RunKeyedFlash
  <2>2. CASE run' = Restarted
    BY <2>2, <1>8 DEF RunKeyedFlash, Restarted
  <2>3. CASE run.node # Nothing /\ run' = [run EXCEPT !.single = SingleReader, !.pc = "read"]
    BY <2>3, <1>8 DEF RunKeyedFlash, SingleReader, Detected
  <2> QED
    BY <2>1, <2>2, <2>3, <1>8 DEF RunKeyedFlash, ProbeWriteAccess
<1>9. CASE ReadSource
  <2>1. ASSUME NEW ks \in KeysFrom(slot),
               run' = [run EXCEPT !.backup = Backup(slot, ks), !.src = slot, !.pc = "mismatch"]
        PROVE  VerifyTarget
    BY <2>1, <1>9 DEF ReadSource
  <2>2. CASE run.single /\ run' = Go("another")
    BY <2>2, <1>9 DEF ReadSource
  <2>3. CASE run' = Go("failed")
    BY <2>3, <1>9 DEF ReadSource
  <2> QED
    BY <2>1, <2>2, <2>3, <1>9 DEF ReadSource
<1>10. CASE WarnNetworkMismatch
  BY <1>10 DEF WarnNetworkMismatch, IdentityRead, Fault
<1>11. CASE SwapGuard
  BY <1>11 DEF SwapGuard, IdentityRead, Misreads, Fault
<1>12. CASE Confirm
  BY <1>12 DEF Confirm
<1>13. CASE FlashImage
  BY <1>13 DEF FlashImage
<1>14. CASE VerifyReadback
  BY <1>14 DEF VerifyReadback
<1>15. CASE CreateAndFormat
  BY <1>15 DEF CreateAndFormat
<1>16. CASE WriteKeys
  BY <1>16 DEF WriteKeys, OnKeys
<1>17. CASE WriteMarker
  BY <1>17 DEF WriteMarker, OnKeys
<1>18. CASE StageConfig
  BY <1>18 DEF StageConfig
<1>19. CASE WriteManifest
  BY <1>19 DEF WriteManifest
<1>20. CASE VerifyTarget
  BY <1>20 DEF VerifyTarget
<1>21. CASE Swap
  BY <1>21 DEF Swap
<1>22. CASE Abort
  BY <1>22 DEF Abort
<1>23. CASE Place
  BY <1>23 DEF Place
<1>24. CASE Bake
  BY <1>24 DEF Bake
<1>25. CASE Advance
  BY <1>25 DEF Advance
<1> QED
  BY <1>1, <1>2, <1>3, <1>4, <1>5, <1>6, <1>7, <1>8, <1>9, <1>10, <1>11, <1>12, <1>13, <1>14, <1>15, <1>16, <1>17, <1>18, <1>19, <1>20, <1>21, <1>22, <1>23, <1>24, <1>25 DEF Next, Step

-----------------------------------------------------------------------------
(* The theorems.                                                            *)

(* No command has run, and the cards are what they were found to be.        *)
LEMMA InitIInv == Init => IInv
<1> SUFFICES ASSUME Init PROVE IInv
  OBVIOUS
<1> USE DEF Init, NoRun, Idle
<1>1. TypeOK
  BY FlashAssumption, StartsAssumption DEF TypeOK, Steps
<1>2. RunInv
  BY DEF RunInv, KeyedOnly, PlainOnly, Reading
<1>3. ImageInv /\ SourceInv /\ BackupInv
  BY DEF ImageInv, SourceInv, BackupInv
<1>4. TargetInv /\ WrittenInv
  BY DEF TargetInv, WrittenInv, Writing, Reading
<1> QED
  BY <1>1, <1>2, <1>3, <1>4 DEF IInv

(* The invariant is kept by every step, and holds throughout.               *)
LEMMA AlwaysIInv == Spec => []IInv
<1>1. IInv /\ [Next]_vars => IInv'
  <2> SUFFICES ASSUME IInv, [Next]_vars PROVE IInv'
    OBVIOUS
  <2>1. TypeOK'
    BY CardsStep, CountsStep, NamesStep DEF CardsOK, CountsOK, NamesOK, TypeOK
  <2> QED
    BY <2>1, RunStep, ImageStep, TargetStep, SourceStep, BackupStep, WrittenStep DEF IInv
<1> QED
  BY InitIInv, <1>1, PTL DEF Spec

(* Types: cards are cards, no card is in two readers, and a command is at   *)
(* one of the steps of `image flash` with the options it was given.         *)
THEOREM TypeCorrect == Spec => []TypeOK
<1>1. IInv => TypeOK
  BY DEF IInv
<1> QED
  BY AlwaysIInv, <1>1, PTL

(* Whatever was downloaded, cached, broken or restarted before, what is     *)
(* written is signed, or unsigned with the operator's leave, and never an   *)
(* image whose signature is wrong (enforce_release_signature).              *)
THEOREM WrittenIsTrusted == Spec => []TrustedImage
<1>1. IInv => TrustedImage
  BY DEF IInv, ImageInv, TrustedImage, Trusted, Chosen, Idle, Writing
<1> QED
  BY AlwaysIInv, <1>1, PTL

(* However often cards are exchanged, the card the keys were read from is   *)
(* only overwritten if it has no identity or was misread                    *)
(* (run_single_reader_restore, card_ids_match).                             *)
THEOREM SourceIsKept == Spec => []SourceKept
<1>1. IInv => SourceKept
  <2> SUFFICES ASSUME IInv, run.pc = "write", Keyed, ReaderOf = run.src
               PROVE  run.misread \/ Identity(run.src) = Nothing
    BY DEF SourceKept
  <2>1. CASE run.single
    BY <2>1 DEF IInv, SourceInv, Idle, ReaderOf, CardIdsMatch
  <2>2. CASE ~run.single
    BY <2>2 DEF IInv, TypeOK, SourceInv, Idle, ReaderOf, Writing
  <2> QED
    BY <2>1, <2>2
<1> QED
  BY AlwaysIInv, <1>1, PTL

(* Only a verified target ends a command as done, and what it was verified  *)
(* for then holds: the keys of the source with the node's chain, marker and *)
(* floor, or the image and the manifest that names it (verify_target,       *)
(* verify_flash_readback).                                                  *)
THEOREM SuccessMeansGood == Spec => SuccessIsGood
<1>1. IInv /\ [Next]_vars => [run'.pc = "done" /\ run.pc # "done" => GoodCard(ReaderOf)]_vars
  <2> SUFFICES ASSUME IInv, Next, run'.pc = "done", run.pc # "done"
               PROVE  GoodCard(ReaderOf)
    BY DEF vars
  <2>1. VerifyTarget
    BY OnlyVerifyEnds DEF IInv
  <2>2. run.pc = "verify" /\ (Keyed => KeysVerified(cards[ReaderOf]))
    BY <2>1 DEF VerifyTarget, Go
  <2> USE DEF IInv, GoodCard, WrittenInv, Idle, Writing
  <2>3. CASE Keyed
    BY <2>2, <2>3 DEF KeysVerified, KeysWritten, MarkerWritten, BackupInv
  <2>4. CASE ~Keyed
    BY <2>2, <2>4
  <2> QED
    BY <2>3, <2>4
<1> QED
  BY AlwaysIInv, <1>1, PTL DEF Spec, SuccessIsGood

=============================================================================
