----------------------------- MODULE Trampoline -----------------------------
(***************************************************************************)
(* The immutable trampoline table and its selection word                   *)
(* (src/patcher/trampoline.cpp, src/patcher/trampoline_state.c).           *)
(*                                                                         *)
(* Selections and resets are serialised by g_tsd_patch_lock, but the       *)
(* selection word and its mirrors are read without it, so every store to   *)
(* them is a step.  A slot is named by the width whose code it holds, and  *)
(* a hash by the slot it was computed from.  The authorization that        *)
(* trampoline_guard.c makes before a selection is in RuntimeGuard.         *)
(***************************************************************************)
EXTENDS Naturals

CONSTANTS Thread,     \* threads that reset, select, validate and attest
          Nobody,
          AllowedMax  \* the widest width the host and the policy allow

Width == 0..2         \* SIMD_SSE41, SIMD_AVX2, SIMD_AVX512
Selection == [width : Width, slot : Width]

ASSUME AllowedAssumption == AllowedMax \in Width
ASSUME TrampolineNobody == Nobody \notin Thread \cup Width \cup Selection

VARIABLES page,        \* the code page: "none", "rw" or "rx"
          word,        \* g_tsd_selection_word, Nobody for 0
          width,       \* the mirror g_tsd_current_width
          slot,        \* the mirror g_tsd_active_trampoline, Nobody for NULL
          initialized, \* g_tsd_trampoline_initialized
          hash,        \* the slot g_active_hash was computed from
          hashValid,   \* g_active_hash_valid
          patchLock,   \* holder of g_tsd_patch_lock
          attestLock,  \* holder of g_attestation_lock
          pc,          \* every thread's place
          target       \* the width a selection asks for, or Nobody in a reset

trampolineVars == <<page, word, width, slot, initialized, hash, hashValid, patchLock,
                    attestLock, pc, target>>
mirrors == <<width, slot, initialized>>
attestation == <<hash, hashValid>>
locks == <<patchLock, attestLock>>

BuildPc == {"map", "protect"}
CommitPc == {"verify", "commit", "word", "width", "slot", "ready", "hash"}
ResetPc == {"reset", "resetWord", "resetWidth", "resetSlot", "resetReady", "resetHash"}
ReadPc == {"validate", "attest", "report"}

TrampolineInit ==
  /\ page = "none" /\ word = Nobody
  /\ width = 0 /\ slot = Nobody /\ initialized = FALSE
  /\ hash = Nobody /\ hashValid = FALSE
  /\ patchLock = Nobody /\ attestLock = Nobody
  /\ pc = [t \in Thread |-> "idle"] /\ target = [t \in Thread |-> Nobody]

Goto(t, label) == pc' = [pc EXCEPT ![t] = label]

----------------------------------------------------------------------------
(* What readers take from the word and its mirrors.                        *)

\* encode_selection followed by the split in tsd_trampoline_state_snapshot
Encode(w, s) == IF s = Nobody THEN Nobody ELSE [width |-> w, slot |-> s]

\* tsd_trampoline_state_current_width: the word, or the mirror while it is 0
CurrentWidth == IF word = Nobody THEN width ELSE word.width

\* tsd_trampoline_state_active
Active == IF word = Nobody THEN slot ELSE word.slot

\* g_slots[w], filled when the page was built
SlotOf(w) == IF page = "none" THEN Nobody ELSE w

----------------------------------------------------------------------------
(* tsd_trampoline_patch and tsd_trampoline_init                            *)

\* the end of a call, which releases both locks
Leave(t) ==
  /\ patchLock' = Nobody
  /\ attestLock' = IF attestLock = t THEN Nobody ELSE attestLock
  /\ Goto(t, "idle")
  /\ target' = [target EXCEPT ![t] = Nobody]

\* page_a is built once, by the first call that finds it missing
NeedsPage == page = "none"

\* take the patch lock for a selection of w
PatchEnter(t, w) ==
  /\ pc[t] = "idle" /\ patchLock = Nobody /\ w <= AllowedMax
  /\ patchLock' = t
  /\ target' = [target EXCEPT ![t] = w]
  /\ Goto(t, IF NeedsPage THEN "map" ELSE "verify")
  /\ UNCHANGED <<page, word, mirrors, attestation, attestLock>>

InitEnter(t) ==
  /\ pc[t] = "idle" /\ patchLock = Nobody
  /\ patchLock' = t
  /\ Goto(t, IF NeedsPage THEN "map" ELSE "reset")
  /\ UNCHANGED <<page, word, mirrors, attestation, attestLock, target>>

\* build_canonical_code_page maps the page and fills the slots, or gives up
BuildMap(t) ==
  /\ pc[t] = "map"
  /\ \/ /\ page' = "rw" /\ Goto(t, "protect")
        /\ UNCHANGED <<locks, target>>
     \/ Leave(t) /\ UNCHANGED page
  /\ UNCHANGED <<word, mirrors, attestation>>

\* it becomes executable and is verified, or discard_code_page unmaps it
BuildProtect(t) ==
  /\ pc[t] = "protect"
  /\ \/ /\ page' = "rx"
        /\ Goto(t, IF target[t] = Nobody THEN "reset" ELSE "verify")
        /\ UNCHANGED <<locks, target>>
     \/ page' = "none" /\ Leave(t)
  /\ UNCHANGED <<word, mirrors, attestation>>

\* mapping_is_rx_not_writable and SHA256 may both fail
PatchVerify(t) ==
  /\ pc[t] = "verify"
  /\ \/ page = "rx" /\ Goto(t, "commit") /\ UNCHANGED <<locks, target>>
     \/ Leave(t)
  /\ UNCHANGED <<page, word, mirrors, attestation>>

\* commit_selection_and_attestation invalidates the hash first
CommitBegin(t) ==
  /\ pc[t] = "commit" /\ attestLock = Nobody
  /\ attestLock' = t /\ hashValid' = FALSE
  /\ Goto(t, "word")
  /\ UNCHANGED <<page, word, mirrors, hash, patchLock, target>>

\* Mutant of PublishWord: the word pairs the new width with the old slot.
PublishWordOldSlot(t) ==
  /\ pc[t] = "word"
  /\ word' = Encode(target[t], IF word = Nobody THEN SlotOf(target[t]) ELSE word.slot)
  /\ Goto(t, "width")
  /\ UNCHANGED <<page, mirrors, attestation, locks, target>>

\* tsd_trampoline_state_publish_selection: the word, which is the authority
PublishWord(t) ==
  /\ pc[t] = "word"
  /\ word' = Encode(target[t], SlotOf(target[t]))
  /\ Goto(t, "width")
  /\ UNCHANGED <<page, mirrors, attestation, locks, target>>

\* and then its compatibility mirrors, one store at a time
PublishMirrors(t) ==
  /\ \/ pc[t] = "width" /\ width' = target[t] /\ Goto(t, "slot") /\ UNCHANGED <<slot, initialized>>
     \/ pc[t] = "slot" /\ slot' = SlotOf(target[t]) /\ Goto(t, "ready")
        /\ UNCHANGED <<width, initialized>>
     \/ pc[t] = "ready" /\ initialized' = TRUE /\ Goto(t, "hash") /\ UNCHANGED <<width, slot>>
  /\ UNCHANGED <<page, word, attestation, locks, target>>

CommitHash(t) ==
  /\ pc[t] = "hash"
  /\ hash' = target[t] /\ hashValid' = TRUE
  /\ Leave(t)
  /\ UNCHANGED <<page, word, mirrors>>

ResetBegin(t) ==
  /\ pc[t] = "reset" /\ attestLock = Nobody
  /\ attestLock' = t
  /\ Goto(t, "resetWord")
  /\ UNCHANGED <<page, word, mirrors, attestation, patchLock, target>>

\* tsd_trampoline_state_reset: back to SSE4.1, not initialized
Reset(t) ==
  /\ \/ pc[t] = "resetWord" /\ word' = Encode(0, SlotOf(0)) /\ Goto(t, "resetWidth")
        /\ UNCHANGED mirrors
     \/ pc[t] = "resetWidth" /\ width' = 0 /\ Goto(t, "resetSlot")
        /\ UNCHANGED <<word, slot, initialized>>
     \/ pc[t] = "resetSlot" /\ slot' = SlotOf(0) /\ Goto(t, "resetReady")
        /\ UNCHANGED <<word, width, initialized>>
     \/ pc[t] = "resetReady" /\ initialized' = FALSE /\ Goto(t, "resetHash")
        /\ UNCHANGED <<word, width, slot>>
  /\ UNCHANGED <<page, attestation, locks, target>>

\* Mutant of ResetHash: the attested hash stays valid.
ResetHashKept(t) ==
  /\ pc[t] = "resetHash"
  /\ Leave(t)
  /\ UNCHANGED <<page, word, mirrors, attestation>>

\* only the end of tsd_trampoline_init invalidates the hash
ResetHash(t) ==
  /\ pc[t] = "resetHash"
  /\ hashValid' = FALSE
  /\ Leave(t)
  /\ UNCHANGED <<page, word, mirrors, hash>>

----------------------------------------------------------------------------
(* Public observers: tsd_trampoline_self_validate and tsd_attestation_*.   *)

ValidateEnter(t) ==
  /\ pc[t] = "idle" /\ patchLock = Nobody
  /\ patchLock' = t
  /\ Goto(t, "validate")
  /\ UNCHANGED <<page, word, mirrors, attestation, attestLock, target>>

\* the result goes to the caller and changes nothing here
Validate(t) ==
  /\ pc[t] = "validate"
  /\ Leave(t)
  /\ UNCHANGED <<page, word, mirrors, attestation>>

\* Mutant of AttestLocks: the attestation lock is taken before the patch lock.
AttestLocksReversed(t) ==
  /\ \/ pc[t] = "idle" /\ attestLock = Nobody /\ attestLock' = t /\ Goto(t, "attest")
        /\ UNCHANGED patchLock
     \/ pc[t] = "attest" /\ patchLock = Nobody /\ patchLock' = t /\ Goto(t, "report")
        /\ UNCHANGED attestLock
  /\ UNCHANGED <<page, word, mirrors, attestation, target>>

\* both locks, the patch lock first
AttestLocks(t) ==
  /\ \/ pc[t] = "idle" /\ patchLock = Nobody /\ patchLock' = t /\ Goto(t, "attest")
        /\ UNCHANGED attestLock
     \/ pc[t] = "attest" /\ attestLock = Nobody /\ attestLock' = t /\ Goto(t, "report")
        /\ UNCHANGED patchLock
  /\ UNCHANGED <<page, word, mirrors, attestation, target>>

\* the hash is handed out, compared, or unavailable
AttestReport(t) ==
  /\ pc[t] = "report"
  /\ Leave(t)
  /\ UNCHANGED <<page, word, mirrors, attestation>>

----------------------------------------------------------------------------

\* the rest of a call that was entered
CallStep(t) ==
  \/ BuildMap(t) \/ BuildProtect(t)
  \/ PatchVerify(t) \/ CommitBegin(t) \/ PublishWord(t) \/ PublishMirrors(t) \/ CommitHash(t)
  \/ ResetBegin(t) \/ Reset(t) \/ ResetHash(t)
  \/ Validate(t) \/ (pc[t] = "attest" /\ AttestLocks(t)) \/ AttestReport(t)

Enter(t) ==
  \/ \E w \in Width : PatchEnter(t, w)
  \/ InitEnter(t) \/ ValidateEnter(t) \/ (pc[t] = "idle" /\ AttestLocks(t))

----------------------------------------------------------------------------
(* Properties.                                                             *)

TrampolineTypeOK ==
  /\ page \in {"none", "rw", "rx"}
  /\ word \in Selection \cup {Nobody}
  /\ width \in Width /\ slot \in Width \cup {Nobody} /\ initialized \in BOOLEAN
  /\ hash \in Width \cup {Nobody} /\ hashValid \in BOOLEAN
  /\ patchLock \in Thread \cup {Nobody} /\ attestLock \in Thread \cup {Nobody}
  /\ pc \in [Thread -> {"idle"} \cup BuildPc \cup CommitPc \cup ResetPc \cup ReadPc]
  /\ target \in [Thread -> Width \cup {Nobody}]

\* A snapshot taken at any moment names code that is mapped, executable and
\* written for the width it announces, however a selection, a reset or a failed
\* page construction is interleaved with it (trampoline_state.c:29-52).
SnapshotRunnable == word # Nobody => page = "rx" /\ word.slot = word.width

\* tsd_trampoline_self_validate finds the canonical code of the current width in
\* the active slot whenever the trampoline counts as initialized, also while
\* another thread's selection is half published; and a hash handed out by
\* tsd_attestation_get_active_hash is that of the slot executions are entering at
\* that moment (trampoline.cpp:245-247).
AttestationSound ==
  /\ \A t \in Thread : pc[t] = "validate" /\ initialized =>
       /\ page = "rx" /\ Active = CurrentWidth
       /\ width = CurrentWidth /\ slot = Active
  /\ \A t \in Thread : pc[t] = "report" /\ hashValid =>
       initialized /\ word = Encode(hash, hash)
=============================================================================
