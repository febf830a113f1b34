----------------------------- MODULE SigningPrograms ----------------------------
(* The programs that sign besides the shared lanes of SharedSigner, each with   *)
(* the files it keeps, and the reconciler's judgements that all of them use,    *)
(* checked in one run.  The parts share no variable: a behaviour is one of the  *)
(* fixed lane or of the generic lane (each with two sets of bounds), of what    *)
(* keeps the two apart, of the Global program, of the collector, of the two     *)
(* RPC readers, or of the reader of an audit ledger; the rest stands still.     *)
EXTENDS ReconciliationReads

CONSTANTS
  (* bounds of the fixed lane, and of its loop over several blocks and errors *)
  FixedTx, FixedBlock, FixedErrors, FixedCrash, RetryTx, RetryBlock, RetryErrors, RetryCrash,
  MaxArms, MaxAttempts, MaxExecutions,
  (* bounds of the generic lane, for its leases and for its shots *)
  LeaseOpportunity, LeaseMuts, LeaseAuths, LeaseClock, LeaseBudget,
  ShotOpportunity, ShotMuts, ShotAuths, ShotClock, ShotBudget,
  MaxLosses, LeaseTime, RenewBefore, MaxMisses,
  (* bounds of the exclusion, the Global program and the collector *)
  MaxLost, GlobalSigned, GlobalKills, MaxMarket, Floor,
  CollectorSigned, CollectorKills, Retained, MaxPrice, MaxGifts,
  (* pieces of a line, the limits of the audit reader, and its bounds *)
  SafetyPieces, OtherPieces, WakePieces, DumpPieces, LineLimit, ChunkLimit, AuditLines, AuditTorn, AuditReplaced

ASSUME ProgramsAssumption ==
  {ShotMuts, ShotBudget, MaxAttempts, MaxMarket, Floor, Retained, MaxPrice} \subseteq Nat

(* Bounds are numbers; a watcher is allowed at least one error. *)
ASSUME LimitsAssumption ==
  /\ {FixedErrors, RetryErrors} \subseteq Nat \ {0}
  /\ {LeaseMuts, LeaseAuths, ShotAuths, MaxArms, MaxLost, GlobalSigned, GlobalKills,
      CollectorSigned, CollectorKills, MaxGifts} \subseteq Nat

VARIABLES
  part,
  txs, state, arm, arming, jobs, watch, queue, tip, kills,
  muts, count, book, auth, issued, tried, revoked, marker, disarming, keeper, signer, clock, losses,
  pc, file, holder, armed, lost,
  raws, ledger, held, authority, watching, command, globalGifts, globalKills,
  signed, eth, usdg, funds, collected, lock, collecting, gifts, collectorKills,
  auditFile, writer, reader

(* The mutations, with a crash; no block of its own after the first. *)
Fixed == INSTANCE FixedLane
  WITH MaxTx <- FixedTx, MaxBlock <- FixedBlock, MaxCrash <- FixedCrash, MaxErrors <- FixedErrors

(* The loop over several blocks and errors, with one transaction. *)
Retries == INSTANCE FixedLane
  WITH MaxTx <- RetryTx, MaxBlock <- RetryBlock, MaxCrash <- RetryCrash, MaxErrors <- RetryErrors

Exclusion == INSTANCE LaneExclusion

(* Renewals, revocations and a second authorization, with one mutation. *)
Leases == INSTANCE GenericLane
  WITH Opportunity <- LeaseOpportunity, MaxMuts <- LeaseMuts, MaxAuths <- LeaseAuths, MaxClock <- LeaseClock,
       Budget <- LeaseBudget

(* Several mutations under one authorization, with no time passing. *)
Shots == INSTANCE GenericLane
  WITH Opportunity <- ShotOpportunity, MaxMuts <- ShotMuts, MaxAuths <- ShotAuths, MaxClock <- ShotClock,
       Budget <- ShotBudget

Global == INSTANCE GlobalLane
  WITH run <- command, gifts <- globalGifts, kills <- globalKills,
       MaxSigned <- GlobalSigned, MaxKills <- GlobalKills

Collecting == INSTANCE Collector
  WITH state <- collected, run <- collecting, kills <- collectorKills,
       Target <- {"MANGA", "SPX"}, Place <- [MANGA |-> 1, SPX |-> 2],
       MaxSigned <- CollectorSigned, MaxKills <- CollectorKills

(* Lines of several kinds, appended, torn and read by chunks. *)
Audit == INSTANCE AuditReader
  WITH ledger <- auditFile,
       Pieces <- [safety |-> SafetyPieces, other |-> OtherPieces, wake |-> WakePieces, dump |-> DumpPieces],
       MaxLine <- LineLimit, Chunk <- ChunkLimit, MaxLines <- AuditLines, MaxTorn <- AuditTorn,
       MaxReplaced <- AuditReplaced

ASSUME AuditAssumption == Audit!ReaderAssumption

fixedVars == <<txs, state, arm, arming, jobs, watch, queue, tip, kills>>
genericVars == <<muts, count, book, auth, issued, tried, revoked, marker, disarming, keeper, signer, clock, losses>>
exclusionVars == <<pc, file, holder, armed, lost>>
globalVars == <<raws, ledger, held, authority, watching, command, globalGifts, globalKills>>
collectorVars == <<signed, eth, usdg, funds, collected, lock, collecting, gifts, collectorKills>>
auditVars == <<auditFile, writer, reader>>
otherVars == <<globalVars, collectorVars, auditVars>>
vars == <<part, fixedVars, genericVars, exclusionVars, otherVars, obs>>

Init ==
  /\ Fixed!LaneInit /\ Exclusion!ExclusionInit /\ ReadsInit /\ Global!GlobalInit
  /\ Audit!ReaderInit
  /\ Collecting!CollectorInit /\ (part = "collector" \/ (eth = 3 /\ \A t \in DOMAIN funds : funds[t] = 1))
  /\ \/ part \in {"fixed", "retries", "exclusion", "reads", "global", "collector", "audit"} /\ Leases!LaneInit /\ book.deployed
     \/ part = "leases" /\ Leases!LaneInit
     \/ part = "shots" /\ Shots!LaneInit

FixedStep == part = "fixed" /\ Fixed!LaneNext /\ UNCHANGED <<part, genericVars, exclusionVars, otherVars, obs>>
RetriesStep == part = "retries" /\ Retries!LaneNext /\ UNCHANGED <<part, genericVars, exclusionVars, otherVars, obs>>
LeasesStep == part = "leases" /\ Leases!LaneNext /\ UNCHANGED <<part, fixedVars, exclusionVars, otherVars, obs>>
ShotsStep == part = "shots" /\ Shots!LaneNext /\ UNCHANGED <<part, fixedVars, exclusionVars, otherVars, obs>>
ExclusionStep == part = "exclusion" /\ Exclusion!ExclusionNext /\ UNCHANGED <<part, fixedVars, genericVars, otherVars, obs>>
ReadsStep == part = "reads" /\ ReadsNext /\ UNCHANGED <<part, fixedVars, genericVars, exclusionVars, otherVars>>
GlobalStep ==
  /\ part = "global" /\ Global!GlobalNext
  /\ UNCHANGED <<part, fixedVars, genericVars, exclusionVars, collectorVars, auditVars, obs>>
CollectorStep ==
  /\ part = "collector" /\ Collecting!CollectorNext
  /\ UNCHANGED <<part, fixedVars, genericVars, exclusionVars, globalVars, auditVars, obs>>
AuditStep ==
  /\ part = "audit" /\ Audit!ReaderNext
  /\ UNCHANGED <<part, fixedVars, genericVars, exclusionVars, globalVars, collectorVars, obs>>

Next ==
  \/ FixedStep \/ RetriesStep \/ LeasesStep \/ ShotsStep \/ ExclusionStep \/ ReadsStep \/ GlobalStep
  \/ CollectorStep \/ AuditStep

Spec == Init /\ [][Next]_vars

--------------------------------------------------------------------------------
(* Properties, as their modules state them *)

(* Every part keeps its types, and an error streak ends at its limit. *)
ProgramsTypeOK ==
  /\ part = "fixed" => Fixed!LaneTypeOK
  /\ part = "retries" => Retries!LaneTypeOK
  /\ part = "leases" => Leases!GenericTypeOK
  /\ part = "shots" => Shots!GenericTypeOK
  /\ part = "exclusion" => Exclusion!ExclusionTypeOK
  /\ part = "global" => Global!GlobalTypeOK
  /\ part = "collector" => Collecting!CollectorTypeOK
  /\ part = "audit" => Audit!ReaderTypeOK

(* The i-th transaction a program signs carries the i-th nonce: no two of them  *)
(* compete, whatever was lost, killed or signed again.                          *)
NoncesConsecutive ==
  /\ part = "fixed" => Fixed!NoncesConsecutive
  /\ part = "global" => Global!SignedInOrder
  /\ part = "collector" => Collecting!SignedInOrder

(* A program's files and the chain tell of the same outcomes.                   *)
BooksMatchChain ==
  /\ part = "fixed" => Fixed!ExecutionsMatchChain
  /\ part = "shots" => Shots!BookMatchesChain
  /\ part = "global" => Global!LedgerMatchesChain
  /\ part = "collector" => Collecting!StatesMatchChain

(* Fixed lane: its watcher signs nothing after a revert of its own, and once at *)
(* most after the arm was lost.  The collector: never more than the wallet can  *)
(* pay for and still keep its retained ETH.                                     *)
SignsArmed ==
  /\ part = "fixed" => Fixed!RevertEndsArm /\ Fixed!AtMostOneLateSignature
  /\ part = "collector" => Collecting!RetainedKept

(* Fixed lane: a block that failed is quoted later, or a higher one is. *)
RetryKept == part = "retries" => Retries!RetryKept

(* Generic lane: a revoked authorization never becomes valid again, and one     *)
(* signs for an opportunity at most once.                                       *)
AuthorizationsHold ==
  /\ part = "leases" => Leases!RevocationFinal
  /\ part = "shots" => Shots!ShotsTakenOnce

(* The lanes never serve together and are never armed together, and who signs,  *)
(* signs alone.                                                                 *)
LanesExclusive == part = "exclusion" => Exclusion!LanesExclusive /\ Exclusion!SignsAlone

(* Two readers never let an operator both close and resend a mutation; a trace  *)
(* either of them shows keeps it open; their order decides nothing.  What is    *)
(* read of a ledger, in any chunks, is what is in it.                           *)
ReadersDecide ==
  /\ AbandonXorReplay /\ TraceKeepsOpen /\ OrderDecidesNothing
  /\ part = "audit" => Audit!LedgerRead
================================================================================
