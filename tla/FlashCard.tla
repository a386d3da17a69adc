----------------------------- MODULE FlashCard -----------------------------
(***************************************************************************)
(* russignol image flash (host-utility/src/image.rs, restore_keys.rs,      *)
(* migrate_keys.rs, device_access.rs): an image from a file or a release   *)
(* is written to a card; with --restore-keys or --migrate-keys the keys of *)
(* another card follow it.  With one reader the operator exchanges the     *)
(* cards, and only a card's identity tells the source from the target.     *)
(*                                                                         *)
(* An image stands for its bytes, its hash and the partition-table UUID it *)
(* carries; Torn for bytes that are no image.  A key partition is found at *)
(* the offset that follows the image it was made after.  The kernel may    *)
(* go on using a card's former table (view).  All cards are read by hosts  *)
(* of one node; interruptions, bad writes and misread identities are       *)
(* counted as faults.                                                      *)
(***************************************************************************)
EXTENDS Naturals, Sequences, FiniteSets

CONSTANTS Cards,
          Images,      \* images the host can get
          Release,     \* the one the release channel offers
          Signed,      \* the images with a valid maintainer signature
          Forged,      \* the ones with a signature that does not verify
          Old,         \* the image used cards were flashed with
          Octez,       \* what a tezos-rpi-bls-signer card carries
          Keys,
          Torn, Nothing,
          Starts,      \* what the cards hold at first
          Kinds,       \* of command: plain, restore, migrate
          MaxHead, MaxFaults, MaxRuns

ASSUME FlashAssumption ==
    /\ Release \in Images /\ {Old, Octez} \cap Images = {}
    /\ Signed \subseteq Images /\ Forged \subseteq Images \ Signed
    /\ Torn \notin Images \cup {Octez, Nothing} /\ Nothing \notin Images
    /\ MaxHead \in Nat \ {0} /\ MaxFaults \in Nat /\ MaxRuns \in Nat
    /\ Kinds \subseteq {"plain", "restore", "migrate"}

VARIABLES cards,         \* what each card holds
          slot, slot2,   \* the card in the reader, and in a second one
          head,          \* level of the chain
          cache,         \* the release in the download cache
          run, runs,     \* the command; commands so far
          faults

vars == <<cards, slot, slot2, head, cache, run, runs, faults>>

(* A card: image, manifest, the image its key partition was laid out after, *)
(* keys by role (or the entries of an Octez card), the chain and level that *)
(* chain_info.json and the staged config name, the setup marker and the     *)
(* highest level signed with its keys.                                      *)
Blank == [image |-> Nothing, manifest |-> Nothing, layout |-> Nothing,
          keys |-> Nothing, chain |-> Nothing, setup |-> FALSE,
          config |-> Nothing, mark |-> 0]
CardOK(card) ==
    /\ DOMAIN card = DOMAIN Blank
    /\ card.image \in Images \cup {Torn, Nothing, Old, Octez}
    /\ card.config \in 0 .. MaxHead \cup {Nothing}
ASSUME StartsAssumption ==
    \A s \in Starts : DOMAIN s = Cards /\ \A c \in Cards : CardOK(s[c])
HasKeys(c) == cards[c].setup /\ cards[c].layout # Nothing

NoRun == [pc |-> "idle", o |-> Nothing, img |-> Nothing, node |-> Nothing,
          backup |-> Nothing, src |-> Nothing, id |-> Nothing, single |-> FALSE,
          misread |-> FALSE, view |-> Nothing, verdict |-> Nothing, skip |-> FALSE,
          sg |-> FALSE]
Steps == {"idle", "node", "source", "select", "fetch", "reader", "read",
          "another", "mismatch", "swap", "guard", "confirm", "write",
          "readback", "manifest", "config", "verify", "format", "keys",
          "marker", "done", "failed"}

(* The options of a command; --skip-verify and --allow-unsigned are drawn   *)
(* where they are looked at.                                                *)
Options == [kind : Kinds, from : {"release", "url", Torn} \cup Images, yes : BOOLEAN]

TypeOK ==
    /\ DOMAIN cards = Cards
    /\ \A c \in Cards : CardOK(cards[c])
    /\ slot \in Cards \cup {Nothing} /\ slot2 \in Cards \cup {Nothing}
    /\ slot = slot2 => slot = Nothing
    /\ head \in 1 .. MaxHead /\ faults \in 0 .. MaxFaults /\ runs \in 0 .. MaxRuns
    /\ cache \in {"none", "part", "whole"}
    /\ run.pc \in Steps /\ run.o \in Options \cup {Nothing}
    /\ run.node \in 1 .. MaxHead \cup {Nothing}

Init ==
    /\ cards \in Starts
    /\ slot = Nothing /\ slot2 = Nothing
    /\ head = 1 /\ faults = 0
    /\ cache \in {"none", "part", "whole"}
    /\ run = NoRun /\ runs = 0

Go(p) == IF p \in {"done", "failed"} THEN [NoRun EXCEPT !.pc = p] ELSE [run EXCEPT !.pc = p]
Keyed == run.o.kind # "plain"
Idle == run.pc \in {"idle", "done", "failed"}
Fault == faults < MaxFaults /\ faults' = faults + 1
ReaderOf == IF Keyed /\ ~run.single THEN slot2 ELSE slot

-----------------------------------------------------------------------------
(* Choosing and checking the image.                                         *)

(* Mutant: an image without a signature passes. *)
VerdictWithoutSignature(i, lax) == IF i \in Forged THEN "refused" ELSE "verified"

(* check_release_signature: the verdict on an image. *)
SignatureVerdict(i, lax) ==
    CASE i \in Signed -> "verified"
      [] i \notin Signed \cup Forged /\ lax -> "unsigned"
      [] OTHER -> "refused"

(* enforce_release_signature: nothing is written after a refusal. *)
Enforced(i, r) ==
    \E lax \in BOOLEAN :
      LET v == SignatureVerdict(i, lax)
      IN run' = IF v = "refused" THEN Go("failed")
                ELSE [r EXCEPT !.img = i, !.verdict = v]

(* The operator may have cards in the readers when the command starts. *)
Started ==
    /\ runs < MaxRuns /\ runs' = runs + 1
    /\ slot' \in Cards \cup {Nothing} /\ slot2' \in (Cards \ {slot'}) \cup {Nothing}

(* A local image: its signature decides before anything else is asked. *)
CmdFlash(o) ==
    /\ Idle /\ o.from \in Images \cup {Torn}
    /\ o.from = Torn => cache = "part"
    /\ Enforced(o.from, [NoRun EXCEPT !.o = o, !.pc = "node"])
    /\ Started
    /\ UNCHANGED <<cards, head, cache, faults>>

CmdFlashDownload(o) ==
    /\ Idle /\ o.from \in {"release", "url"}
    /\ run' = [NoRun EXCEPT !.o = o, !.pc = "node"]
    /\ Started
    /\ UNCHANGED <<cards, head, cache, faults>>

(* check_node_for_watermarks: no node is only accepted of a host that has   *)
(* no configuration and cannot ask.                                         *)
CheckNode ==
    /\ run.pc = "node"
    /\ \E n \in {head, Nothing} :
         run' = IF n = Nothing /\ ~run.o.yes THEN Go("failed")
                ELSE [run EXCEPT !.node = n, !.pc = IF Keyed THEN "source" ELSE "select"]
    /\ UNCHANGED <<cards, slot, slot2, head, cache, runs, faults>>

(* download_with_cache, download_file: a cached file is used if its         *)
(* checksum is the release's; a broken download stays in the cache.  The     *)
(* images of other releases, which cleanup_old_cache drops, are left out.   *)
Cached == cache = "whole" /\ UNCHANGED cache
Downloaded == cache # "whole" /\ cache' = "whole"
DownloadBroken == cache # "whole" /\ cache' = "part"

(* download_and_verify_release_image: an address of the operator's own has  *)
(* no checksum and is refused.                                              *)
Fetch ==
    /\ run.pc = "fetch"
    /\ \/ /\ run.o.from = "url"
          /\ run' = Go("failed") /\ UNCHANGED cache
       \/ /\ run.o.from = "release"
          /\ Cached \/ Downloaded
          /\ Enforced(Release, Go(IF Keyed THEN "reader" ELSE "write"))
       \/ /\ run.o.from = "release"
          /\ DownloadBroken
          /\ run' = Go("failed")
    /\ UNCHANGED <<cards, slot, slot2, head, runs, faults>>

(* cmd_download: without a checksum a file in the cache is taken as it is. *)
CmdDownload(skip) ==
    /\ Idle
    /\ \/ Cached \/ (skip /\ cache = "part" /\ UNCHANGED cache)
       \/ (skip => cache = "none") /\ (Downloaded \/ DownloadBroken)
    /\ UNCHANGED <<cards, slot, slot2, head, run, runs, faults>>

(* detect_removable_devices: the readers with a card. *)
Detected == {slot, slot2} \ {Nothing}

(* check_device_not_mounted: a mounted card is refused. *)
NotMounted(next, fail) == next \/ fail

(* probe_write_access, recovery_menu: without write access the operator     *)
(* goes on with sudo, quits, or has the command run again in the group of   *)
(* the device, which is not offered once the group is active                *)
(* (diagnose_denied); with --yes the command ends.                          *)
Restarted ==
    [NoRun EXCEPT !.sg = TRUE, !.o = run.o, !.pc = "node", !.verdict = run.verdict,
                  !.img = IF run.o.from \in {"release", "url"} THEN Nothing ELSE run.img]
ProbeWriteAccess(next) ==
    \/ run' = next
    \/ run' = Go("failed")
    \/ ~run.o.yes /\ ~run.sg /\ run' = Restarted

(* wait_for_removable_device: the target of a plain flash. *)
SelectDevice ==
    /\ run.pc = "select" /\ slot \in Detected
    /\ NotMounted(ProbeWriteAccess(Go("confirm")), run' = Go("failed"))
    /\ UNCHANGED <<cards, slot, slot2, head, cache, runs, faults>>

-----------------------------------------------------------------------------
(* Reading the source card.                                                 *)

(* resolve_restore_source, MigrateSource::prompt. *)
ResolveKeySource ==
    /\ run.pc = "source" /\ slot # Nothing
    /\ run' = Go(IF run.o.from \in {"release", "url"} THEN "fetch" ELSE "reader")
    /\ UNCHANGED <<cards, slot, slot2, head, cache, runs, faults>>

(* is_single_reader_mode: no other device was detected. *)
SingleReader == Detected \subseteq {slot}

(* run_keyed_flash: write access is probed before the source is read, and   *)
(* without a node nothing is.                                               *)
RunKeyedFlash ==
    /\ run.pc = "reader"
    /\ IF run.node = Nothing THEN run' = Go("failed")
       ELSE ProbeWriteAccess([run EXCEPT !.single = SingleReader, !.pc = "read"])
    /\ UNCHANGED <<cards, slot, slot2, head, cache, runs, faults>>

(* resolve_role_mapping: without a key named by the operator, the one that  *)
(* is the delegate's consensus key on the chain, if it is exactly one.      *)
Entry(es, k) == {i \in DOMAIN es : es[i] = k}
ResolveConsensus(es, cons, comp, onchain) ==
    IF {cons, comp} = {Nothing} /\ Cardinality(Entry(es, onchain)) = 1 THEN onchain ELSE cons

(* remaining_source_key: the first entry but one. *)
Remaining(es, but) == CHOOSE i \in DOMAIN es :
                        i # but /\ \A j \in DOMAIN es : j # but => i <= j

(* assign_roles: an entry for each role; {} when that cannot be. *)
Assigned(es, i, j) == [consensus |-> es[i], companion |-> es[j]]
AssignRoles(es, c, k) ==
    CASE c = Nothing /\ k = Nothing ->
           IF Len(es) = 2 THEN {Assigned(es, 1, 2)} ELSE {}
      [] c # Nothing /\ k # Nothing ->
           {Assigned(es, i, j) : i \in Entry(es, c), j \in Entry(es, k) \ Entry(es, c)}
      [] c # Nothing /\ k = Nothing ->
           {Assigned(es, i, Remaining(es, i)) : i \in {i \in Entry(es, c) : Len(es) > 1}}
      [] OTHER ->
           {Assigned(es, Remaining(es, j), j) : j \in {j \in Entry(es, k) : Len(es) > 1}}

(* build_migrated_backup, with every choice of the operator and every       *)
(* consensus key of the delegate.                                           *)
MigratedKeys(es) ==
    LET pick == Keys \cup {Nothing}
    IN UNION {AssignRoles(es, ResolveConsensus(es, cons, comp, onchain), comp) :
                cons \in pick, comp \in pick, onchain \in pick}

(* read_source_card, read_nomadic_source: the keys a card yields; {} from   *)
(* one that is not a source.                                                *)
RussignolKeys(c) == IF HasKeys(c) THEN {cards[c].keys} ELSE {}
NomadicKeys(c) == IF cards[c].image = Octez THEN MigratedKeys(cards[c].keys) ELSE {}
KeysFrom(c) == IF run.o.kind = "restore" THEN RussignolKeys(c) ELSE NomadicKeys(c)
Backup(c, ks) == [keys |-> ks, chain |-> IF cards[c].image = Octez THEN Nothing ELSE cards[c].chain]

(* Mutant: the wrong card is read again without being exchanged. *)
ReadSourceAgain ==
    /\ run.pc = "read" /\ slot # Nothing
    /\ \/ \E ks \in KeysFrom(slot) :
            run' = [run EXCEPT !.backup = Backup(slot, ks), !.src = slot, !.pc = "mismatch"]
       \/ KeysFrom(slot) = {} /\ run' = Go(IF run.single THEN "read" ELSE "failed")
    /\ UNCHANGED <<cards, slot, slot2, head, cache, runs, faults>>

(* RestoreSource::read, MigrateSource::read and the loop around them: a     *)
(* wrong PIN is asked for again, another card is asked for if there is but  *)
(* one reader, and what neither can mend ends the command, as keys whose    *)
(* roles cannot be told do.                                                 *)
ReadSource ==
    /\ run.pc = "read" /\ slot # Nothing
    /\ \/ \E ks \in KeysFrom(slot) :
            run' = [run EXCEPT !.backup = Backup(slot, ks), !.src = slot, !.pc = "mismatch"]
       \/ /\ KeysFrom(slot) = {}
          /\ run' = Go(IF run.single THEN "another" ELSE "failed")
       \/ run.o.kind = "migrate" /\ cards[slot].image = Octez /\ run' = Go("failed")
    /\ UNCHANGED <<cards, slot, slot2, head, cache, runs, faults>>

(* CardSource::identity: the manifest's card id, or the UUID of the table,  *)
(* which is the image's.  A mount that fails reads as no manifest, and      *)
(* blkid may name no table (read_card_id, source_disk_ptuuid).              *)
Ptuuid(c) == IF cards[c].image \in {Nothing, Torn} THEN Nothing ELSE cards[c].image
Identity(c) == IF run.o.kind = "restore" /\ cards[c].manifest # Nothing THEN c ELSE Ptuuid(c)
Misreads(c) == {Ptuuid(c), Nothing} \ {Identity(c)}
IdentityRead(c, id) == \/ id = Identity(c) /\ UNCHANGED faults
                       \/ id \in Misreads(c) /\ Fault

(* Mutant: only the manifest of the backup identifies the source. *)
WarnAndKeepManifestId ==
    /\ run.pc = "mismatch"
    /\ \/ run' = [run EXCEPT !.pc = IF run.single THEN "swap" ELSE "confirm",
                    !.id = IF cards[slot].manifest # Nothing THEN slot ELSE Nothing]
       \/ run.backup.chain # "main" /\ ~run.o.yes /\ run' = Go("failed")
    /\ UNCHANGED <<cards, slot, slot2, head, cache, runs, faults>>

(* warn_network_mismatch: a source of another chain, or of an unknown one,  *)
(* needs a yes; then its identity is taken while it is in the reader.       *)
WarnNetworkMismatch ==
    /\ run.pc = "mismatch"
    /\ \/ ~run.single /\ run' = Go("confirm") /\ UNCHANGED faults
       \/ /\ run.single
          /\ \E id \in {Identity(slot)} \cup Misreads(slot) :
               /\ IdentityRead(slot, id)
               /\ run' = [run EXCEPT !.pc = "swap", !.id = id, !.misread = id # Identity(slot)]
       \/ /\ run.backup.chain # "main" /\ ~run.o.yes
          /\ run' = Go("failed") /\ UNCHANGED faults
    /\ UNCHANGED <<cards, slot, slot2, head, cache, runs>>

(* wait_for_card_swap: the card is taken out, and one is put in. *)
Swap ==
    /\ run.pc \in {"another", "swap"}
    /\ slot' \in Cards \ {slot2}
    /\ run' = Go(IF run.pc = "swap" THEN "guard" ELSE "read")
    /\ UNCHANGED <<cards, slot2, head, cache, runs, faults>>

(* card_ids_match: the loop that refuses the source card. *)
CardIdsMatch(a, b) == a # Nothing /\ a = b
SwapGuard ==
    /\ run.pc = "guard"
    /\ \E id \in {Identity(slot)} \cup Misreads(slot) :
         /\ IdentityRead(slot, id)
         /\ run' = [run EXCEPT !.misread = @ \/ id # Identity(slot),
                      !.pc = IF CardIdsMatch(run.id, id) THEN "swap" ELSE "confirm"]
    /\ UNCHANGED <<cards, slot, slot2, head, cache, runs>>

(* confirm_flash_operation, confirm_restore_operation; a plain download     *)
(* only starts now.                                                         *)
Confirm ==
    /\ run.pc = "confirm"
    /\ \/ run' = Go(IF ~Keyed /\ run.o.from \in {"release", "url"} THEN "fetch" ELSE "write")
       \/ ~run.o.yes /\ run' = Go("failed")
    /\ UNCHANGED <<cards, slot, slot2, head, cache, runs, faults>>

-----------------------------------------------------------------------------
(* Writing the card.                                                        *)

(* reread_partition_table: without CAP_SYS_ADMIN, or when the device is     *)
(* busy, the kernel keeps the table it has.                                 *)
Reread(stale, old, new) == IF stale THEN old ELSE new

(* flash_image_to_device: the whole card is overwritten.  A bad write is    *)
(* only seen when it is read back.  The kernel's view of the table is the   *)
(* new one (Nothing: no key partition yet) or still the card's former one.  *)
FlashImage ==
    /\ run.pc = "write"
    /\ \E bad \in BOOLEAN, stale \in BOOLEAN :
         /\ IF bad THEN Fault ELSE UNCHANGED faults
         /\ cards' = [cards EXCEPT ![ReaderOf] =
                        [Blank EXCEPT !.image = IF bad THEN Torn ELSE run.img]]
         /\ run' = [run EXCEPT !.pc = IF Keyed THEN "format" ELSE "readback",
                      !.view = Reread(stale, cards[ReaderOf].layout, Nothing)]
    /\ UNCHANGED <<slot, slot2, head, cache, runs>>

(* verify_flash_or_note_skip. *)
VerifyReadback ==
    /\ run.pc = "readback"
    /\ \/ run' = Go(IF cards[slot].image = run.img THEN "manifest" ELSE "failed")
       \/ run' = [run EXCEPT !.skip = TRUE, !.pc = "manifest"]
    /\ UNCHANGED <<cards, slot, slot2, head, cache, runs, faults>>

(* create_and_format_partitions: the table gains the two partitions; their  *)
(* nodes are the ones the kernel knows, and unless they appear it fails.    *)
CreateAndFormat ==
    /\ run.pc = "format"
    /\ cards' = [cards EXCEPT ![ReaderOf].layout = run.img]
    /\ \E stale \in BOOLEAN :
         LET view == Reread(stale, run.view, run.img)
         IN run' = IF view = Nothing THEN Go("failed")
                   ELSE [run EXCEPT !.view = view, !.pc = "keys"]
    /\ UNCHANGED <<slot, slot2, head, cache, runs, faults>>

(* What is written to the key partition lands where the kernel believes     *)
(* that partition to be, unless the card drops it.                          *)
OnKeys(card) ==
    \/ /\ cards' = IF run.view = run.img THEN [cards EXCEPT ![ReaderOf] = card] ELSE cards
       /\ UNCHANGED faults
    \/ cards' = cards /\ run.view = run.img /\ Fault

(* write_backup_to_target: the keys, then chain_info.json and the marker. *)
WriteKeys ==
    /\ run.pc = "keys"
    /\ OnKeys([cards[ReaderOf] EXCEPT !.keys = run.backup.keys])
    /\ run' = Go("marker")
    /\ UNCHANGED <<slot, slot2, head, cache, runs>>

WriteMarker ==
    /\ run.pc = "marker"
    /\ OnKeys([cards[ReaderOf] EXCEPT !.chain = "main", !.setup = TRUE])
    /\ run' = Go("config")
    /\ UNCHANGED <<slot, slot2, head, cache, runs>>

(* write_watermark_config, the level being that of the node check. *)
StageConfig ==
    /\ run.pc = "config"
    /\ cards' = IF run.node = Nothing THEN cards
                ELSE [cards EXCEPT ![ReaderOf].config = run.node]
    /\ run' = Go(IF Keyed THEN "manifest" ELSE "verify")
    /\ UNCHANGED <<slot, slot2, head, cache, runs, faults>>

WriteManifest ==
    /\ run.pc = "manifest"
    /\ cards' = [cards EXCEPT ![ReaderOf].manifest = run.img]
    /\ run' = Go(IF Keyed THEN "verify" ELSE "config")
    /\ UNCHANGED <<slot, slot2, head, cache, runs, faults>>

(* Mutant: only the staged config is read back. *)
KeysUnverified(card) == TRUE

(* verify_keys_partition, verify_target: files that are there, looked for   *)
(* where they were written.                                                 *)
KeysVerified(card) == run.view # run.img \/ (card.keys # Nothing /\ card.setup)
VerifyTarget ==
    /\ run.pc = "verify"
    /\ run' = Go(IF Keyed => KeysVerified(cards[ReaderOf]) THEN "done" ELSE "failed")
    /\ UNCHANGED <<cards, slot, slot2, head, cache, runs, faults>>

(* An error at a step, an interruption of the command, a card pulled out. *)
Abort ==
    /\ ~Idle /\ Fault
    /\ run' = Go("failed")
    /\ \/ cards' = cards
       \/ run.pc = "write" /\ cards' = [cards EXCEPT ![ReaderOf] = [Blank EXCEPT !.image = Torn]]
    /\ UNCHANGED <<slot, slot2, head, cache, runs>>

-----------------------------------------------------------------------------
(* Around the command.                                                      *)

(* The operator puts a card in the reader that waits for one. *)
Place ==
    /\ run.pc \in {"select", "source"} /\ slot = Nothing
    /\ slot' \in Cards \ {slot2}
    /\ UNCHANGED <<cards, slot2, head, cache, run, runs, faults>>

(* A device whose card is not in a reader signs, until the source is read. *)
Bake ==
    \E c \in Cards :
      /\ Idle \/ (run.pc \in {"source", "another"} /\ c \notin {slot, slot2})
      /\ HasKeys(c) /\ cards[c].mark < head
      /\ cards' = [cards EXCEPT ![c].mark = head]
      /\ UNCHANGED <<slot, slot2, head, cache, run, runs, faults>>

Advance ==
    /\ head < MaxHead /\ head' = head + 1
    /\ UNCHANGED <<cards, slot, slot2, cache, run, runs, faults>>

Step ==
    \/ CheckNode \/ Fetch \/ SelectDevice \/ ResolveKeySource \/ RunKeyedFlash
    \/ ReadSource \/ WarnNetworkMismatch \/ SwapGuard \/ Confirm
    \/ FlashImage \/ VerifyReadback \/ CreateAndFormat \/ WriteKeys
    \/ WriteMarker \/ StageConfig \/ WriteManifest \/ VerifyTarget

Next ==
    \/ \E o \in Options : CmdFlash(o) \/ CmdFlashDownload(o)
    \/ \E skip \in BOOLEAN : CmdDownload(skip)
    \/ Step \/ Swap \/ Abort \/ Place \/ Bake \/ Advance

(* A card is put in the reader that asks for one; whoever is asked for      *)
(* another tries them all.                                                  *)
SwapIn(c) == Swap /\ slot' = c

Spec == Init /\ [][Next]_vars /\ WF_vars(Step) /\ WF_vars(Place)
             /\ \A c \in Cards : SF_vars(SwapIn(c))

-----------------------------------------------------------------------------
(* Properties.                                                              *)

Writing == {"write", "readback", "manifest", "config", "verify", "format", "keys", "marker"}

(* With one reader the card the keys were read from is not the one that is  *)
(* overwritten, however often the operator puts it back, unless it has no   *)
(* identity or a mount or blkid failed when an identity was read, before    *)
(* the exchange or after it: the card id read one time then meets the UUID  *)
(* of the table the other time, or nothing (run_single_reader_restore,      *)
(* restore_keys.rs:1114-1145; read_card_id, image.rs:178).                  *)
SourceKept ==
    run.pc = "write" /\ Keyed /\ ReaderOf = run.src =>
      run.misread \/ Identity(run.src) = Nothing

(* What is written to a card without --allow-unsigned is an image the       *)
(* maintainer signed, and never one whose signature does not verify: not a  *)
(* broken download left in the cache and flashed as a file                  *)
(* (enforce_release_signature, image.rs:756).                               *)
TrustedImage ==
    run.pc \in Writing => \/ run.img \in Signed
                          \/ run.verdict = "unsigned" /\ run.img \notin Forged

(* A command that reports success leaves a good card: a plain flash without *)
(* --skip-verify the very image its manifest names; a keyed one the keys of *)
(* the source, which still has them, the node's chain, the marker and a     *)
(* staged floor, if the kernel used the new table (verify_target,           *)
(* restore_keys.rs:634, and verify_flash_readback, image.rs:2120).          *)
GoodCard(c) ==
    IF Keyed
    THEN run.view = run.img =>
           /\ cards[c].keys = run.backup.keys /\ cards[c].setup
           /\ cards[c].chain = "main" /\ cards[c].config = run.node
           /\ (run.o.kind = "restore" /\ c # run.src => cards[run.src].keys = cards[c].keys)
    ELSE run.skip \/ (cards[c].image = run.img /\ cards[c].manifest = run.img)
SuccessIsGood == [][run'.pc = "done" /\ run.pc # "done" => GoodCard(ReaderOf)]_vars

(* A command ends: the loops that ask for another card stop when some card  *)
(* in the operator's hands is a source, and some other one does not look    *)
(* like it (restore_keys.rs:1103, 1145).                                    *)
NoSource == run.pc \in {"read", "another"} /\ \A c \in Cards : KeysFrom(c) = {}
NoTarget == run.pc \in {"swap", "guard"} /\ \A c \in Cards : Identity(c) = run.id
FlashEnds == ~Idle ~> (Idle \/ NoSource \/ NoTarget)

=============================================================================
