------------------------ MODULE PartitionApi_proofs ------------------------
(***************************************************************************)
(* Theorems about the calling forms, for a memory of any size and any      *)
(* cutoffs: what the proofs of the scalar kernels show of a call of their  *)
(* own holds of the calls the dispatch makes, mirrored and negated ones    *)
(* included, and the caller of every form gets the contract.               *)
(*                                                                         *)
(* The inductive invariant of a kernel is instantiated with what the       *)
(* kernel sees of the call.  The dispatch establishes it, and the kernel's *)
(* own steps keep it by the kernel's own lemma.                            *)
(***************************************************************************)
EXTENDS PartitionApi, TLAPS

SK == INSTANCE ScalarKernels_proofs WITH
          below <- Keep, first <- From, last <- To, rev <- Rev,
          pivot <- GuardCell, store <- lo, cur <- hi, i <- lo, j <- hi,
          gv <- v, gpc <- pc

ScalarKernels == {"hoare", "guarded", "lomuto", "gap"}

\* The arguments of a call, which no step changes.
CallOK ==
    /\ form \in ValueForms \cup PositionForms \cup {"offset_partition"}
    /\ alg \in AlgsOf(form)
    /\ below \in SUBSET Pos
    /\ cast \in CastsOf(form, alg, below)
    /\ first \in 0 .. N
    /\ last \in first .. N
    /\ form \in PositionForms => pivot \in first .. last - 1 /\ pivot \notin below
    /\ off \in 0 .. last - first
    /\ form # "offset_partition" => off = 0
    /\ \A p \in first .. first + off - 1 : p \notin below

\* The inductive invariant: the one kernel that runs satisfies its own.
IInv ==
    /\ CallOK
    /\ pc = "call" => kernel = "none" /\ v = [p \in Pos |-> p] /\ tmp = -1
    /\ pc # "call" => kernel = Dispatched
    /\ kernel = "hoare"   => SK!IInv
    /\ kernel = "guarded" => SK!GuardedIInv
    /\ kernel = "lomuto"  => SK!LomutoIInv
    /\ kernel = "gap"     => SK!GapIInv
    /\ pc # "call" /\ kernel \notin ScalarKernels =>
          pc \in {"contract", "done"} /\ IsArrangement(v)

LEMMA InitIInv == Init => IInv
BY DEF Init, IInv, CallOK, ValueForms, PositionForms
-----------------------------------------------------------------------------
\* What a kernel sees of a call is a call.
LEMMA SeenCall ==
    ASSUME CallOK
    PROVE  /\ From \in 0 .. N /\ To \in From .. N
           /\ Keep \in SUBSET Pos /\ Rev \in BOOLEAN
           /\ off \in 0 .. To - From
           /\ Mirrored => off = 0
<1> USE NAssumption
<1>1. Mirrored => form # "offset_partition"
  BY DEF Mirrored
<1> QED
  BY <1>1 DEF CallOK, From, To, Keep, Rev

\* The array a kernel sees is an arrangement too.
LEMMA SeenArrangement ==
    ASSUME NEW a, IsArrangement(a)
    PROVE  IsArrangement(Seen(a))
<1> USE NAssumption
<1>1. CASE Mirrored
  <2>1. Seen(a) = [p \in Pos |-> a[N - 1 - p]] /\ a \in [Pos -> Pos]
    BY <1>1 DEF Seen, IsArrangement
  <2>2. ASSUME NEW p \in Pos PROVE N - 1 - p \in Pos
    BY DEF Pos
  <2>3. Seen(a) \in [Pos -> Pos]
    BY <2>1, <2>2
  <2>4. ASSUME NEW p \in Pos, NEW q \in Pos, Seen(a)[p] = Seen(a)[q]
        PROVE  p = q
    <3>1. N - 1 - p = N - 1 - q
      BY <2>1, <2>2, <2>4 DEF IsArrangement
    <3> QED
      BY <3>1 DEF Pos
  <2> QED
    BY <2>3, <2>4 DEF IsArrangement
<1>2. CASE ~Mirrored
  BY <1>2 DEF Seen
<1> QED
  BY <1>1, <1>2

\* No step changes the arguments, nor what a kernel sees of them.
LEMMA CallFixed ==
    ASSUME [Next]_vars
    PROVE  UNCHANGED <<call, Keep, KeptLeft, From, To, GuardCell, Rev, Mirrored, Dispatched>>
<1>1. UNCHANGED call
  BY DEF Next, vars, Dispatch, Running, RunHoare, RunGuarded, RunLomuto, RunGap,
     RunByContract, Terminating
<1>2. UNCHANGED <<form, alg, below, cast, first, last, pivot, off>>
  BY <1>1 DEF call
<1>3. UNCHANGED AtPath
  BY <1>2 DEF AtPath
<1>4. UNCHANGED <<Mirrored, Rev>>
  BY <1>2, <1>3 DEF Mirrored, Rev
<1>5. UNCHANGED <<Negated, Eligible>>
  BY <1>2, <1>4 DEF Negated, Eligible
<1>6. UNCHANGED <<Keep, From, To, GuardCell>>
  BY <1>2, <1>4, <1>5 DEF Keep, From, To, GuardCell
<1>7. UNCHANGED KeptLeft
  BY <1>4, <1>6 DEF KeptLeft
<1>8. UNCHANGED <<Suffix, SizedOff>>
  BY <1>2 DEF Suffix, SizedOff
<1>9. UNCHANGED Dispatched
  BY <1>2, <1>3, <1>5, <1>8 DEF Dispatched, BoostBlock, BlockSimd, Compress, Sized, QuickPartition
<1> QED
  BY <1>1, <1>4, <1>6, <1>7, <1>9
-----------------------------------------------------------------------------
\* What the dispatch hands to a kernel.
LEMMA Dispatches ==
    ASSUME IInv, Dispatch
    PROVE  /\ IsArrangement(v') /\ v' = Seen(v) /\ lo' = From
           /\ \A p \in Pos : v'[p] = IF Mirrored THEN N - 1 - p ELSE p
           /\ kernel' = Dispatched /\ tmp' = -1 /\ pc = "call"
           /\ UNCHANGED <<call, below, first, last, pivot, off>>
           /\ UNCHANGED <<Keep, KeptLeft, From, To, GuardCell, Rev, Mirrored, Dispatched>>
<1> USE NAssumption
<1>1. /\ pc = "call" /\ v = [p \in Pos |-> p] /\ tmp = -1
      /\ v' = Seen(v) /\ lo' = From /\ kernel' = Dispatched
      /\ UNCHANGED <<call, tmp>>
  BY DEF IInv, Dispatch
<1>2. IsArrangement(v)
  BY <1>1 DEF IsArrangement
<1>3. IsArrangement(v')
  BY <1>1, <1>2, SeenArrangement
<1>4. ASSUME NEW p \in Pos PROVE v'[p] = IF Mirrored THEN N - 1 - p ELSE p
  <2>1. N - 1 - p \in Pos
    BY DEF Pos
  <2> QED
    BY <1>1, <2>1 DEF Seen
<1>5. UNCHANGED <<Keep, KeptLeft, From, To, GuardCell, Rev, Mirrored, Dispatched>>
  BY CallFixed DEF Next
<1> QED
  BY <1>1, <1>3, <1>4, <1>5 DEF call

\* hoare and hoare_rev start with the cursors at the ends of their range.
LEMMA DispatchHoare ==
    ASSUME IInv, Dispatch, Dispatched = "hoare"
    PROVE  SK!IInv'
<1> USE NAssumption
<1>1. /\ From \in 0 .. N /\ To \in From .. N
      /\ Keep \in SUBSET Pos /\ Rev \in BOOLEAN
  BY SeenCall DEF IInv
<1>2. /\ lo' = From /\ hi' = To /\ pc' = "left" /\ IsArrangement(v')
      /\ UNCHANGED <<Keep, From, To, Rev>>
  BY Dispatches DEF Dispatch
<1>3. SK!IsArrangement(v')
  BY <1>2 DEF IsArrangement, SK!IsArrangement, Pos, SK!Pos
<1>4. SK!TypeOK'
  BY <1>1, <1>2 DEF SK!TypeOK, IsArrangement, Pos, SK!Pos
<1>5. SK!Sandwich'
  BY <1>1, <1>2 DEF SK!Sandwich, SK!AllIn, SK!NoneIn
<1> QED
  BY <1>3, <1>4, <1>5 DEF SK!IInv, SK!IsArrangement, SK!Pos

\* hoare_guarded::at is only called with a pivot of the range, and finds it at
\* the mirrored position of a mirrored range.
LEMMA DispatchGuarded ==
    ASSUME IInv, Dispatch, Dispatched = "guarded"
    PROVE  SK!GuardedIInv'
<1> USE NAssumption
<1>1. From \in 0 .. N /\ To \in From .. N /\ Keep \in SUBSET Pos
  BY SeenCall DEF IInv
<1>2. /\ lo' = From /\ hi' = To /\ pc' = "guard" /\ IsArrangement(v')
      /\ \A p \in Pos : v'[p] = IF Mirrored THEN N - 1 - p ELSE p
      /\ UNCHANGED <<Keep, From, To, GuardCell>>
  BY Dispatches DEF Dispatch
<1>a. alg \in ValueAlgs \cup PositionAlgs \cup ReversedAlgs \cup OffsetAlgs
  BY DEF IInv, CallOK, AlgsOf, ValueForms, PositionForms
<1>3. AtPath
  BY <1>a DEF Dispatched, BoostBlock, BlockSimd, Compress, Sized, QuickPartition, SizedOff,
     ValueAlgs, PositionAlgs, ReversedAlgs, OffsetAlgs
<1>4. Keep = below /\ pivot \in first .. last - 1 /\ pivot \notin below
  BY <1>3 DEF AtPath, Mirrored, Negated, Keep, IInv, CallOK, PositionForms
<1>5. GuardCell \in From .. To - 1
  BY <1>4 DEF GuardCell, From, To, IInv, CallOK
<1>6. GuardCell \in Pos /\ v'[GuardCell] = pivot
  BY <1>1, <1>2, <1>4, <1>5 DEF GuardCell, Pos, IInv, CallOK
<1>7. SK!IsArrangement(v')
  BY <1>2 DEF IsArrangement, SK!IsArrangement, Pos, SK!Pos
<1>8. SK!HG!TypeOK'
  BY <1>1, <1>2, <1>5 DEF SK!HG!TypeOK, IsArrangement, Pos, SK!HG!Pos
<1>9. SK!HG!Guarded' /\ SK!HG!Sandwich'
  BY <1>1, <1>2 DEF SK!HG!Guarded, SK!HG!Sandwich, SK!HG!AllIn, SK!HG!NoneIn
<1>10. SK!GuardedAtPivot' /\ SK!GuardedLeftEnd'
  BY <1>2, <1>4, <1>6 DEF SK!GuardedAtPivot, SK!GuardedLeftEnd
<1> QED
  BY <1>7, <1>8, <1>9, <1>10
  DEF SK!GuardedIInv, SK!IsArrangement, SK!Pos

\* lomuto and scan_swap_off are never called on a mirrored range, and the
\* prefix the caller promises is the prefix they skip.
LEMMA DispatchLomuto ==
    ASSUME IInv, Dispatch, Dispatched = "lomuto"
    PROVE  SK!LomutoIInv'
<1> USE NAssumption
<1>1. /\ From \in 0 .. N /\ To \in From .. N /\ Keep \in SUBSET Pos
      /\ off \in 0 .. To - From
  BY SeenCall DEF IInv
<1>2. ~Mirrored
  BY DEF Dispatched, BoostBlock, BlockSimd, Compress, Sized, QuickPartition, SizedOff,
     Mirrored, AtPath, PositionAlgs
<1>3. /\ lo' = From /\ hi' = From + off /\ pc' = "scan" /\ IsArrangement(v')
      /\ \A p \in Pos : v'[p] = p
      /\ UNCHANGED <<Keep, From, To, off>>
  BY <1>2, Dispatches DEF Dispatch
<1>4. ASSUME NEW p \in From .. From + off - 1 PROVE v'[p] \notin Keep
  <2>1. off # 0
    BY <1>1, <1>4
  <2>2. Keep = below
    BY <2>1 DEF IInv, CallOK, Keep, Negated
  <2>3. p \in Pos /\ p \in first .. first + off - 1
    BY <1>1, <1>2, <1>4 DEF Pos, From
  <2> QED
    BY <1>3, <2>2, <2>3 DEF IInv, CallOK
<1>5. SK!IsArrangement(v')
  BY <1>3 DEF IsArrangement, SK!IsArrangement, Pos, SK!Pos
<1>6. SK!LM!TypeOK'
  BY <1>1, <1>3 DEF SK!LM!TypeOK, IsArrangement, Pos, SK!LM!Pos
<1>7. SK!LM!LoopInvariant' /\ SK!LM!KeptInOrder' /\ SK!LomutoPassed' /\ SK!LomutoAtEnd'
  BY <1>1, <1>3, <1>4 DEF SK!LM!LoopInvariant, SK!LM!AllIn, SK!LM!NoneIn,
     SK!LM!KeptInOrder, SK!LomutoPassed, SK!LomutoAtEnd
<1>8. ASSUME NEW p \in From + off .. To - 1 PROVE v'[p] = p
  BY <1>1, <1>3 DEF Pos
<1>9. SK!LomutoUntouched'
  BY <1>3, <1>8 DEF SK!LomutoUntouched
<1> QED
  BY <1>5, <1>6, <1>7, <1>9
  DEF SK!LomutoIInv, SK!IsArrangement, SK!Pos

\* The gap walk starts with nothing lifted and its prefix as promised.
LEMMA DispatchGap ==
    ASSUME IInv, Dispatch, Dispatched = "gap"
    PROVE  SK!GapIInv' /\ SK!G!Restored' = v'
<1> USE NAssumption
<1>1. /\ From \in 0 .. N /\ To \in From .. N /\ Keep \in SUBSET Pos
      /\ Rev \in BOOLEAN /\ off \in 0 .. To - From /\ (Mirrored => off = 0)
  BY SeenCall DEF IInv
<1>2. /\ lo' = From /\ hi' = From /\ pc' = "start" /\ IsArrangement(v')
      /\ tmp' = SK!G!Hole
      /\ \A p \in Pos : v'[p] = IF Mirrored THEN N - 1 - p ELSE p
      /\ UNCHANGED <<Keep, From, To, Rev, off>>
  BY Dispatches DEF Dispatch, SK!G!Hole
<1>3. ASSUME NEW p \in From .. From + off - 1 PROVE v'[p] \notin SK!G!GoesLeft
  <2>1. off # 0 /\ ~Mirrored
    BY <1>1, <1>3
  <2>2. form = "offset_partition"
    BY <2>1 DEF IInv, CallOK
  <2>3. ~Rev /\ Keep = below
    BY <2>2 DEF IInv, CallOK, Rev, Keep, Negated, AlgsOf, OffsetAlgs, ReversedAlgs,
       ValueForms, PositionForms
  <2>4. p \in Pos /\ p \in first .. first + off - 1
    BY <1>1, <1>3, <2>1 DEF Pos, From
  <2> QED
    BY <1>2, <2>1, <2>3, <2>4 DEF IInv, CallOK, SK!G!GoesLeft
<1>4. SK!G!GoesLeft' = SK!G!GoesLeft
  BY <1>2 DEF SK!G!GoesLeft, SK!G!Pos, SK!Pos
<1>5. SK!G!Restored' = v' /\ ~SK!G!Open'
  BY <1>2 DEF SK!G!Restored, SK!G!Open
<1>6. SK!G!IsArrangement(v')
  BY <1>2 DEF IsArrangement, SK!G!IsArrangement, SK!IsArrangement, Pos, SK!G!Pos, SK!Pos
<1>7. SK!G!TypeOK'
  BY <1>1, <1>2 DEF SK!G!TypeOK, IsArrangement, Pos, SK!G!Pos, SK!Pos
<1>8. SK!G!OneGap'
  <2>1. \A p \in SK!G!Pos : v'[p] # SK!G!Hole
    BY <1>6 DEF SK!G!IsArrangement, SK!IsArrangement, SK!G!Pos, SK!Pos, SK!G!Hole
  <2> QED
    BY <1>5, <1>6, <2>1 DEF SK!G!OneGap, SK!G!IsArrangement, SK!IsArrangement, SK!G!Pos, SK!Pos
<1>9. SK!G!GapInvariant' /\ SK!GapPromised'
  BY <1>1, <1>2, <1>3, <1>4 DEF SK!G!GapInvariant, SK!G!AllIn, SK!AllIn, SK!G!NoneIn,
     SK!NoneIn, SK!GapPromised
<1> QED
  BY <1>5, <1>7, <1>8, <1>9 DEF SK!GapIInv
-----------------------------------------------------------------------------
\* A step of the kernel that runs is a step of its specification, so it keeps
\* the kernel's invariant.
LEMMA RunHoareKeeps ==
    ASSUME IInv, RunHoare
    PROVE  SK!Next /\ SK!IInv /\ SK!IInv' /\ kernel = "hoare" /\ kernel' = kernel
<1>1. H!Next /\ kernel = "hoare" /\ kernel' = kernel
  BY DEF RunHoare, Running
<1>2. SK!Next
  BY <1>1 DEF H!Next, H!ScanLeft, H!LeftStops, H!ScanRight, H!Return, H!Exchange,
     H!Terminating, H!vars, H!args, H!GoesLeft, H!Swap, H!Pos,
     SK!Next, SK!ScanLeft, SK!LeftStops, SK!ScanRight, SK!Return,
     SK!Exchange, SK!Terminating, SK!vars, SK!args, SK!GoesLeft,
     SK!Swap, SK!Pos
<1>3. SK!IInv'
  BY <1>1, <1>2, NAssumption, SK!IInvStep DEF SK!NAssumption, IInv
<1> QED
  BY <1>1, <1>2, <1>3 DEF IInv

LEMMA RunGuardedKeeps ==
    ASSUME IInv, RunGuarded
    PROVE  SK!HG!Next /\ SK!GuardedIInv /\ SK!GuardedIInv'
           /\ kernel = "guarded" /\ kernel' = kernel
<1>1. HG!Next /\ kernel = "guarded" /\ kernel' = kernel
  BY DEF RunGuarded, Running
<1>2. SK!HG!Next
  BY <1>1 DEF HG!Next, HG!Guard, HG!SkipUp, HG!UpStops, HG!SkipDown, HG!Return,
     HG!Exchange, HG!Terminating, HG!vars, HG!args, HG!Swap,
     SK!HG!Next, SK!HG!Guard, SK!HG!SkipUp, SK!HG!UpStops,
     SK!HG!SkipDown, SK!HG!Return, SK!HG!Exchange, SK!HG!Terminating,
     SK!HG!vars, SK!HG!args, SK!HG!Swap
<1>3. SK!GuardedIInv'
  BY <1>1, <1>2, NAssumption, SK!GuardedIInvStep DEF SK!HG!NAssumption, IInv
<1> QED
  BY <1>1, <1>2, <1>3 DEF IInv

LEMMA RunLomutoKeeps ==
    ASSUME IInv, RunLomuto
    PROVE  SK!LM!Next /\ SK!LomutoIInv /\ SK!LomutoIInv'
           /\ kernel = "lomuto" /\ kernel' = kernel
<1>1. L!Next /\ kernel = "lomuto" /\ kernel' = kernel
  BY DEF RunLomuto, Running
<1>2. SK!LM!Next
  BY <1>1 DEF L!Next, L!Keep, L!Skip, L!Return, L!Terminating, L!vars, L!args, L!Swap,
     SK!LM!Next, SK!LM!Keep, SK!LM!Skip, SK!LM!Return, SK!LM!Terminating,
     SK!LM!vars, SK!LM!args, SK!LM!Swap
<1>3. SK!LomutoIInv'
  BY <1>1, <1>2, NAssumption, SK!LomutoIInvStep DEF SK!LM!NAssumption, IInv
<1> QED
  BY <1>1, <1>2, <1>3 DEF IInv

LEMMA RunGapKeeps ==
    ASSUME IInv, RunGap
    PROVE  SK!G!Next /\ SK!GapIInv /\ SK!GapIInv' /\ kernel = "gap" /\ kernel' = kernel
<1>1. G!Next /\ kernel = "gap" /\ kernel' = kernel
  BY DEF RunGap, Running
<1>2. SK!G!Next
  BY <1>1 DEF G!Next, G!Empty, G!Lift, G!CloseGap, G!Pull, G!CloseLast, G!PutBack,
     G!Terminating, G!vars, G!args, G!Advance, G!GoesLeft, G!Hole, G!Pos,
     SK!G!Next, SK!G!Empty, SK!G!Lift, SK!G!CloseGap, SK!G!Pull, SK!G!CloseLast,
     SK!G!PutBack, SK!G!Terminating, SK!G!vars, SK!G!args, SK!G!Advance,
     SK!G!GoesLeft, SK!G!Hole, SK!G!Pos, SK!Pos
<1>3. SK!GapIInv'
  BY <1>1, <1>2, NAssumption, SK!GapIInvStep DEF SK!NAssumption, IInv
<1> QED
  BY <1>1, <1>2, <1>3 DEF IInv

\* A kernel that runs has been dispatched.
LEMMA KernelRuns ==
    ASSUME IInv, kernel \in ScalarKernels
    PROVE  pc # "call" /\ kernel = Dispatched
BY DEF IInv, ScalarKernels

\* A step the contract allows keeps the array an arrangement.
LEMMA ContractKeeps ==
    ASSUME IInv, RunByContract
    PROVE  /\ kernel \notin ScalarKernels /\ kernel' = kernel
           /\ pc = "contract" /\ pc' = "done" /\ IsArrangement(v')
<1>1. pc = "contract" /\ pc' = "done" /\ kernel' = kernel /\ IsArrangement(v')
  BY DEF RunByContract
<1>2. kernel \notin ScalarKernels
  BY <1>1 DEF IInv, ScalarKernels, SK!IInv, SK!TypeOK, SK!GuardedIInv,
     SK!HG!TypeOK, SK!LomutoIInv, SK!LM!TypeOK, SK!GapIInv, SK!G!TypeOK
<1> QED
  BY <1>1, <1>2

LEMMA CallOKStep == ASSUME CallOK, [Next]_vars PROVE CallOK'
<1>1. UNCHANGED <<form, alg, below, cast, first, last, pivot, off>>
  BY CallFixed DEF call
<1> QED
  BY <1>1 DEF CallOK, AlgsOf, CastsOf, VectorAlgs, Pos

LEMMA IInvStep == IInv /\ [Next]_vars => IInv'
<1> SUFFICES ASSUME IInv, [Next]_vars PROVE IInv'
  OBVIOUS
<1>0. CallOK' /\ Dispatched' = Dispatched
  BY CallOKStep, CallFixed DEF IInv
<1>1. CASE Dispatch
  <2>1. kernel' = Dispatched /\ pc' # "call" /\ IsArrangement(v')
    BY <1>1, Dispatches DEF Dispatch
  <2>2. Dispatched \notin ScalarKernels => pc' = "contract"
    BY <1>1 DEF Dispatch, ScalarKernels
  <2>3. IsArrangement(v)'
    BY <2>1 DEF IsArrangement, Pos
  <2> QED
    BY <1>0, <1>1, <2>1, <2>2, <2>3, DispatchHoare, DispatchGuarded, DispatchLomuto,
       DispatchGap DEF IInv
<1>2. CASE RunHoare
  <2>1. SK!IInv' /\ kernel' = "hoare" /\ kernel = "hoare"
    BY <1>2, RunHoareKeeps
  <2>2. pc' # "call"
    BY <2>1 DEF SK!IInv, SK!TypeOK
  <2> QED
    BY <1>0, <2>1, <2>2, KernelRuns DEF IInv, ScalarKernels
<1>3. CASE RunGuarded
  <2>1. SK!GuardedIInv' /\ kernel' = "guarded" /\ kernel = "guarded"
    BY <1>3, RunGuardedKeeps
  <2>2. pc' # "call"
    BY <2>1 DEF SK!GuardedIInv, SK!HG!TypeOK
  <2> QED
    BY <1>0, <2>1, <2>2, KernelRuns DEF IInv, ScalarKernels
<1>4. CASE RunLomuto
  <2>1. SK!LomutoIInv' /\ kernel' = "lomuto" /\ kernel = "lomuto"
    BY <1>4, RunLomutoKeeps
  <2>2. pc' # "call"
    BY <2>1 DEF SK!LomutoIInv, SK!LM!TypeOK
  <2> QED
    BY <1>0, <2>1, <2>2, KernelRuns DEF IInv, ScalarKernels
<1>5. CASE RunGap
  <2>1. SK!GapIInv' /\ kernel' = "gap" /\ kernel = "gap"
    BY <1>5, RunGapKeeps
  <2>2. pc' # "call"
    BY <2>1 DEF SK!GapIInv, SK!G!TypeOK
  <2> QED
    BY <1>0, <2>1, <2>2, KernelRuns DEF IInv, ScalarKernels
<1>6. CASE RunByContract
  <2>1. /\ kernel \notin ScalarKernels /\ kernel' = kernel
        /\ pc = "contract" /\ pc' = "done" /\ IsArrangement(v')
    BY <1>6, ContractKeeps
  <2>2. IsArrangement(v)'
    BY <2>1 DEF IsArrangement, Pos
  <2> QED
    BY <1>0, <2>1, <2>2 DEF IInv, ScalarKernels
<1>7. CASE Terminating \/ UNCHANGED vars
  <2>1. /\ UNCHANGED <<kernel, v, lo, hi, tmp, pc, off>>
        /\ UNCHANGED <<Keep, KeptLeft, From, To, GuardCell, Rev>>
    BY <1>7, CallFixed DEF Terminating, vars, call
  <2>2. UNCHANGED <<SK!vars, SK!HG!vars, SK!LM!vars, SK!G!vars>>
    BY <2>1 DEF SK!vars, SK!HG!vars, SK!LM!vars, SK!G!vars
  <2>3. kernel' = "hoare" => SK!IInv'
    BY <2>1, <2>2, NAssumption, SK!IInvStep DEF SK!NAssumption, IInv
  <2>4. kernel' = "guarded" => SK!GuardedIInv'
    BY <2>1, <2>2, NAssumption, SK!GuardedIInvStep DEF SK!HG!NAssumption, IInv
  <2>5. kernel' = "lomuto" => SK!LomutoIInv'
    BY <2>1, <2>2, NAssumption, SK!LomutoIInvStep DEF SK!LM!NAssumption, IInv
  <2>6. kernel' = "gap" => SK!GapIInv'
    BY <2>1, <2>2, NAssumption, SK!GapIInvStep DEF SK!NAssumption, IInv
  <2> QED
    BY <1>0, <2>1, <2>3, <2>4, <2>5, <2>6 DEF IInv, IsArrangement, Pos
<1> QED
  BY <1>1, <1>2, <1>3, <1>4, <1>5, <1>6, <1>7 DEF Next

\* The conjunction is an invariant of every call.
LEMMA Invariance == Spec => []IInv
<1>1. Init => IInv
  BY InitIInv
<1>2. IInv /\ [Next]_vars => IInv'
  BY IInvStep
<1> QED
  BY <1>1, <1>2, PTL DEF Spec
-----------------------------------------------------------------------------
\* Whichever form is called, in either direction, the scan of hoare_guarded::at
\* that has no bound of its own is stopped by an element of the range.
THEOREM GuardAlwaysHolds == Spec => []GuardHolds
<1>1. IInv => GuardHolds
  <2>1. HG!TypeOK <=> SK!HG!TypeOK
    BY DEF HG!TypeOK, SK!HG!TypeOK, HG!Pos, SK!HG!Pos
  <2>2. HG!Guarded <=> SK!HG!Guarded
    BY DEF HG!Guarded, SK!HG!Guarded
  <2>3. HG!Sandwich <=> SK!HG!Sandwich
    BY DEF HG!Sandwich, SK!HG!Sandwich, HG!AllIn, SK!HG!AllIn, HG!NoneIn,
       SK!HG!NoneIn
  <2> QED
    BY <2>1, <2>2, <2>3 DEF IInv, SK!GuardedIInv, GuardHolds
<1> QED
  BY <1>1, Invariance, PTL

\* Whichever form is called, lomuto and scan_swap_off keep the order of the
\* elements that go left.
THEOREM OrderAlwaysKept == Spec => []KeptInOrder
<1>1. IInv => KeptInOrder
  <2>1. L!TypeOK <=> SK!LM!TypeOK
    BY DEF L!TypeOK, SK!LM!TypeOK, L!Pos, SK!LM!Pos
  <2>2. L!LoopInvariant <=> SK!LM!LoopInvariant
    BY DEF L!LoopInvariant, SK!LM!LoopInvariant, L!AllIn, SK!LM!AllIn, L!NoneIn,
       SK!LM!NoneIn
  <2>3. L!KeptInOrder <=> SK!LM!KeptInOrder
    BY DEF L!KeptInOrder, SK!LM!KeptInOrder
  <2> QED
    BY <2>1, <2>2, <2>3 DEF IInv, SK!LomutoIInv, KeptInOrder
<1> QED
  BY <1>1, Invariance, PTL
-----------------------------------------------------------------------------
(***************************************************************************)
(* The contract.  A kernel's own refinement is about the array it sees and *)
(* the range it was given; the caller's memory is that array, mirrored     *)
(* back if the range was.                                                  *)
(***************************************************************************)
\* The array the kernel sees, with what it has lifted put back.
Viewed == IF kernel = "gap" /\ pc # "call" THEN SK!G!Restored ELSE v

\* What a step of a kernel may do, in the kernel's own terms.
Moves ==
    /\ pc # "done"
    /\ IsArrangement(Viewed')
    /\ SameOutside(Viewed, Viewed', From, To)
    /\ pc' = "done" => Partitioned(Viewed', KeptLeft, From, lo', To)

Stutters ==
    /\ Viewed' = Viewed
    /\ (pc = "done") <=> (pc' = "done")
    /\ pc = "done" => lo' = lo

LEMMA HoareStep == ASSUME IInv, RunHoare PROVE Moves \/ Stutters
<1>1. /\ SK!Next /\ SK!IInv /\ SK!IInv'
      /\ kernel = "hoare" /\ kernel' = kernel
  BY RunHoareKeeps
<1>2. SK!Contract!Next \/ UNCHANGED SK!Contract!vars
  BY <1>1, NAssumption, SK!RefineStep DEF SK!NAssumption
<1>3. Viewed = v /\ Viewed' = v'
  BY <1>1 DEF Viewed
<1>4. SK!GoesLeft = KeptLeft
  BY DEF SK!GoesLeft, SK!Pos, KeptLeft, Pos
<1>5. CASE SK!Contract!Work
  <2>1. pc # "done" /\ pc' # "done"
    BY <1>5 DEF SK!Contract!Work
  <2> QED
    BY <1>3, <1>5, <2>1 DEF SK!Contract!Work, SK!Contract!Rearranges,
       SK!Contract!IsArrangement,
       SK!Contract!SameOutside, SK!Contract!Pos, Moves, IsArrangement, SameOutside, Pos
<1>6. CASE SK!Contract!Return
  <2>1. pc # "done" /\ pc' = "done"
    BY <1>6 DEF SK!Contract!Return
  <2> QED
    BY <1>3, <1>4, <1>6, <2>1 DEF SK!Contract!Return, SK!Contract!Rearranges,
       SK!Contract!IsArrangement,
       SK!Contract!SameOutside, SK!Contract!Partitioned, SK!Contract!AllIn, SK!Contract!NoneIn,
       SK!Contract!Pos,
       Moves, IsArrangement, SameOutside, Partitioned, AllIn, NoneIn, Pos
<1>7. CASE UNCHANGED SK!Contract!vars
  BY <1>3, <1>7 DEF SK!Contract!vars, Stutters
<1> QED
  BY <1>2, <1>5, <1>6, <1>7 DEF SK!Contract!Next

\* hoare_guarded::at, lomuto and scan_swap_off are of the forward family.
LEMMA ForwardKernels == Dispatched \in {"guarded", "lomuto"} => ~Rev
BY DEF Dispatched, BoostBlock, BlockSimd, Compress, Sized, QuickPartition, SizedOff, Rev,
   ReversedAlgs

LEMMA GuardedStep == ASSUME IInv, RunGuarded PROVE Moves \/ Stutters
<1>1. /\ SK!HG!Next /\ SK!GuardedIInv /\ SK!GuardedIInv'
      /\ kernel = "guarded" /\ kernel' = kernel
  BY RunGuardedKeeps
<1>2. SK!HG!Contract!Next \/ UNCHANGED SK!HG!Contract!vars
  BY <1>1, NAssumption, SK!GuardedRefineStep DEF SK!HG!NAssumption
<1>3. Viewed = v /\ Viewed' = v'
  BY <1>1 DEF Viewed
<1>4. Keep = KeptLeft
  <2>1. Dispatched = "guarded"
    BY <1>1, KernelRuns DEF ScalarKernels
  <2> QED
    BY <2>1, ForwardKernels DEF KeptLeft
<1>5. CASE SK!HG!Contract!Work
  <2>1. pc # "done" /\ pc' # "done"
    BY <1>5 DEF SK!HG!Contract!Work
  <2> QED
    BY <1>3, <1>5, <2>1 DEF SK!HG!Contract!Work, SK!HG!Contract!Rearranges,
       SK!HG!Contract!IsArrangement,
       SK!HG!Contract!SameOutside, SK!HG!Contract!Pos, Moves, IsArrangement, SameOutside, Pos
<1>6. CASE SK!HG!Contract!Return
  <2>1. pc # "done" /\ pc' = "done"
    BY <1>6 DEF SK!HG!Contract!Return
  <2> QED
    BY <1>3, <1>4, <1>6, <2>1 DEF SK!HG!Contract!Return, SK!HG!Contract!Rearranges,
       SK!HG!Contract!IsArrangement,
       SK!HG!Contract!SameOutside, SK!HG!Contract!Partitioned, SK!HG!Contract!AllIn,
       SK!HG!Contract!NoneIn,
       SK!HG!Contract!Pos,
       Moves, IsArrangement, SameOutside, Partitioned, AllIn, NoneIn, Pos
<1>7. CASE UNCHANGED SK!HG!Contract!vars
  BY <1>3, <1>7 DEF SK!HG!Contract!vars, Stutters
<1> QED
  BY <1>2, <1>5, <1>6, <1>7 DEF SK!HG!Contract!Next

LEMMA LomutoStep == ASSUME IInv, RunLomuto PROVE Moves \/ Stutters
<1>1. /\ SK!LM!Next /\ SK!LomutoIInv /\ SK!LomutoIInv'
      /\ kernel = "lomuto" /\ kernel' = kernel
  BY RunLomutoKeeps
<1>2. SK!LM!Contract!Next \/ UNCHANGED SK!LM!Contract!vars
  BY <1>1, NAssumption, SK!LomutoRefineStep DEF SK!LM!NAssumption
<1>3. Viewed = v /\ Viewed' = v'
  BY <1>1 DEF Viewed
<1>4. Keep = KeptLeft
  <2>1. Dispatched = "lomuto"
    BY <1>1, KernelRuns DEF ScalarKernels
  <2> QED
    BY <2>1, ForwardKernels DEF KeptLeft
<1>5. CASE SK!LM!Contract!Work
  <2>1. pc # "done" /\ pc' # "done"
    BY <1>5 DEF SK!LM!Contract!Work
  <2> QED
    BY <1>3, <1>5, <2>1 DEF SK!LM!Contract!Work, SK!LM!Contract!Rearranges,
       SK!LM!Contract!IsArrangement,
       SK!LM!Contract!SameOutside, SK!LM!Contract!Pos, Moves, IsArrangement, SameOutside, Pos
<1>6. CASE SK!LM!Contract!Return
  <2>1. pc # "done" /\ pc' = "done"
    BY <1>6 DEF SK!LM!Contract!Return
  <2> QED
    BY <1>3, <1>4, <1>6, <2>1 DEF SK!LM!Contract!Return, SK!LM!Contract!Rearranges,
       SK!LM!Contract!IsArrangement,
       SK!LM!Contract!SameOutside, SK!LM!Contract!Partitioned, SK!LM!Contract!AllIn,
       SK!LM!Contract!NoneIn,
       SK!LM!Contract!Pos,
       Moves, IsArrangement, SameOutside, Partitioned, AllIn, NoneIn, Pos
<1>7. CASE UNCHANGED SK!LM!Contract!vars
  BY <1>3, <1>7 DEF SK!LM!Contract!vars, Stutters
<1> QED
  BY <1>2, <1>5, <1>6, <1>7 DEF SK!LM!Contract!Next

LEMMA GapStep == ASSUME IInv, RunGap PROVE Moves \/ Stutters
<1>1. /\ SK!G!Next /\ SK!GapIInv /\ SK!GapIInv'
      /\ kernel = "gap" /\ kernel' = kernel
  BY RunGapKeeps
<1>2. SK!G!Contract!Next \/ UNCHANGED SK!G!Contract!vars
  BY <1>1, NAssumption, SK!GapRefineStep DEF SK!NAssumption
<1>3. Viewed = SK!G!Restored /\ Viewed' = SK!G!Restored'
  <2>1. pc # "call" /\ pc' # "call"
    BY <1>1 DEF SK!GapIInv, SK!G!TypeOK
  <2> QED
    BY <1>1, <2>1 DEF Viewed
<1>4. SK!G!GoesLeft = KeptLeft
  BY DEF SK!G!GoesLeft, SK!G!Pos, SK!Pos, KeptLeft, Pos
<1>5. CASE SK!G!Contract!Work
  <2>1. pc # "done" /\ pc' # "done"
    BY <1>5 DEF SK!G!Contract!Work
  <2> QED
    BY <1>3, <1>5, <2>1 DEF SK!G!Contract!Work, SK!G!Contract!Rearranges,
       SK!G!Contract!IsArrangement,
       SK!G!Contract!SameOutside, SK!G!Contract!Pos, Moves, IsArrangement, SameOutside, Pos
<1>6. CASE SK!G!Contract!Return
  <2>1. pc # "done" /\ pc' = "done"
    BY <1>6 DEF SK!G!Contract!Return
  <2> QED
    BY <1>3, <1>4, <1>6, <2>1 DEF SK!G!Contract!Return, SK!G!Contract!Rearranges,
       SK!G!Contract!IsArrangement,
       SK!G!Contract!SameOutside, SK!G!Contract!Partitioned, SK!G!Contract!AllIn,
       SK!G!Contract!NoneIn,
       SK!G!Contract!Pos,
       Moves, IsArrangement, SameOutside, Partitioned, AllIn, NoneIn, Pos
<1>7. CASE UNCHANGED SK!G!Contract!vars
  BY <1>3, <1>7 DEF SK!G!Contract!vars, Stutters
<1> QED
  BY <1>2, <1>5, <1>6, <1>7 DEF SK!G!Contract!Next

\* The vector kernels have `<` built in; they are only reached where that is the
\* comparator of the call, so with a key that compares as before once it is
\* converted they tell the elements apart as the caller does.
LEMMA VectorComparator ==
    CallOK /\ KeyPreserved /\ Dispatched \in {"compress", "block_simd"}
        => KeptLeft = below /\ cast = below
<1> SUFFICES ASSUME CallOK, KeyPreserved, Dispatched \in {"compress", "block_simd"}
             PROVE  KeptLeft = below /\ cast = below
  OBVIOUS
<1>1. alg \in ValueAlgs \cup PositionAlgs \cup ReversedAlgs \cup OffsetAlgs
  BY DEF CallOK, AlgsOf, ValueForms, PositionForms
<1>2. alg \in {"block_compress_amd", "quick_partition"} /\ Eligible
  BY <1>1 DEF Dispatched, BoostBlock, BlockSimd, Compress, Sized, QuickPartition, SizedOff,
     ValueAlgs, PositionAlgs, ReversedAlgs, OffsetAlgs
<1>3. KeptLeft = below
  BY <1>2 DEF Eligible, Keep, KeptLeft, Rev, ReversedAlgs
<1> QED
  BY <1>3 DEF KeyPreserved

LEMMA ContractStep == ASSUME IInv, KeyPreserved, RunByContract PROVE Moves
<1>1. /\ kernel \notin ScalarKernels /\ kernel' = kernel
      /\ pc = "contract" /\ pc' = "done" /\ IsArrangement(v')
  BY ContractKeeps
<1>2. PICK s \in TakenForLeft :
          SameOutside(v, v', From, To) /\ Partitioned(v', s, From, lo', To)
  BY DEF RunByContract
<1>3. Viewed = v /\ Viewed' = v'
  BY <1>1 DEF Viewed, ScalarKernels
<1>4. s = KeptLeft
  <2>1. CallOK /\ kernel = Dispatched
    BY <1>1 DEF IInv
  <2>2. CASE kernel \in {"compress", "block_simd"}
    <3>1. KeptLeft = below /\ cast = below
      BY <2>1, <2>2, VectorComparator
    <3> QED
      BY <1>2, <2>2, <3>1 DEF TakenForLeft
  <2>3. CASE kernel \notin {"compress", "block_simd"}
    BY <1>2, <2>3 DEF TakenForLeft
  <2> QED
    BY <2>2, <2>3
<1> QED
  BY <1>1, <1>2, <1>3, <1>4 DEF Moves
-----------------------------------------------------------------------------
-----------------------------------------------------------------------------
\* Exactly one of the three means is used to turn the comparison round: the
\* range, the comparator or the kernel.
LEMMA CallersSide ==
    ASSUME CallOK
    PROVE  IF Mirrored THEN KeptLeft = below /\ CallersLeft = Pos \ below
                       ELSE KeptLeft = CallersLeft
<1>1. Rev => form = "by_key"
  BY DEF Rev, CallOK, AlgsOf, ValueAlgs, PositionAlgs, ReversedAlgs, OffsetAlgs,
     ValueForms, PositionForms
<1>2. Mirrored => form = "reverse_by_position"
  BY DEF Mirrored
<1> QED
  BY <1>1, <1>2 DEF CallersLeft, KeptLeft, Keep, Negated

\* A rearrangement of the range a kernel was given is one of the caller's range.
LEMMA SeenOutside ==
    ASSUME CallOK, NEW a, NEW b, SameOutside(a, b, From, To)
    PROVE  SameOutside(Seen(a), Seen(b), first, last)
<1> USE NAssumption
<1>1. CASE Mirrored
  <2>1. ASSUME NEW p \in Pos, p \notin first .. last - 1
        PROVE  Seen(a)[p] = Seen(b)[p]
    <3>1. N - 1 - p \in Pos /\ N - 1 - p \notin From .. To - 1
      BY <1>1, <2>1 DEF Pos, From, To, CallOK
    <3>2. a[N - 1 - p] = b[N - 1 - p]
      BY <3>1 DEF SameOutside
    <3> QED
      BY <1>1, <2>1, <3>2 DEF Seen
  <2> QED
    BY <2>1 DEF SameOutside
<1>2. CASE ~Mirrored
  BY <1>2 DEF Seen, From, To
<1> QED
  BY <1>1, <1>2

\* The boundary a kernel finds is, counted from the other end of a mirrored
\* range, the caller's.
LEMMA SeenPartitioned ==
    ASSUME CallOK, NEW a \in [Pos -> Pos], NEW m,
           Partitioned(a, KeptLeft, From, m, To)
    PROVE  Partitioned(Seen(a), CallersLeft, first, IF Mirrored THEN N - m ELSE m, last)
<1> USE NAssumption
<1>1. CASE Mirrored
  <2>1. /\ first \in Int /\ last \in Int /\ 0 <= first /\ last <= N
        /\ m \in N - last .. N - first
        /\ \A p \in N - last .. m - 1 : a[p] \in below
        /\ \A p \in m .. N - first - 1 : a[p] \notin below
        /\ CallersLeft = Pos \ below
    BY <1>1, CallersSide DEF Partitioned, AllIn, NoneIn, From, To, CallOK
  <2>2. \A p \in Pos : Seen(a)[p] = a[N - 1 - p]
    BY <1>1 DEF Seen
  <2>3. ASSUME NEW p \in first .. N - m - 1 PROVE Seen(a)[p] \in CallersLeft
    <3>1. p \in Pos /\ N - 1 - p \in Pos /\ N - 1 - p \in m .. N - first - 1
      BY <2>1 DEF Pos
    <3> QED
      BY <2>1, <2>2, <3>1
  <2>4. ASSUME NEW p \in N - m .. last - 1 PROVE Seen(a)[p] \notin CallersLeft
    <3>1. p \in Pos /\ N - 1 - p \in N - last .. m - 1
      BY <2>1 DEF Pos
    <3> QED
      BY <2>1, <2>2, <3>1
  <2>5. N - m \in first .. last
    BY <2>1
  <2> QED
    BY <1>1, <2>3, <2>4, <2>5 DEF Partitioned, AllIn, NoneIn
<1>2. CASE ~Mirrored
  BY <1>2, CallersSide DEF Seen, From, To
<1> QED
  BY <1>1, <1>2

\* The caller's memory is what the kernel sees, mirrored back.
LEMMA MemoryViewed ==
    /\ pc # "call" => Memory = Seen(Viewed)
    /\ pc' # "call" /\ Mirrored' = Mirrored => Memory' = Seen(Viewed')
<1>1. G!Restored = SK!G!Restored
  BY DEF G!Restored, G!Open, G!Gap, SK!G!Restored, SK!G!Open, SK!G!Gap
<1>2. pc # "call" => Memory = Seen(Viewed)
  BY <1>1 DEF Memory, Viewed
<1>3. G!Restored' = SK!G!Restored'
  BY DEF G!Restored, G!Open, G!Gap, SK!G!Restored, SK!G!Open, SK!G!Gap
<1>4. ASSUME pc' # "call", Mirrored' = Mirrored PROVE Memory' = Seen(Viewed')
  BY <1>3, <1>4 DEF Memory, Viewed, Seen
<1> QED
  BY <1>2, <1>4

\* A step of a kernel is a step of the caller's partition.
LEMMA MovesImplements ==
    ASSUME IInv, IInv', [Next]_vars, pc # "call", pc' # "call", Moves,
           Viewed \in [Pos -> Pos]
    PROVE  Contract!Next
<1>1. CallOK /\ UNCHANGED <<first, last, Mirrored, CallersLeft>>
  BY CallFixed DEF IInv, call, CallersLeft, Rev
<1>2. Memory = Seen(Viewed) /\ Memory' = Seen(Viewed')
  BY <1>1, MemoryViewed
<1>3. IsArrangement(Memory')
  BY <1>2, SeenArrangement DEF Moves
<1>4. SameOutside(Memory, Memory', first, last)
  BY <1>1, <1>2, SeenOutside DEF Moves
<1>5. Contract!Rearranges
  BY <1>3, <1>4 DEF Contract!Rearranges, Contract!IsArrangement, Contract!SameOutside,
     Contract!Pos, IsArrangement, SameOutside, Pos
<1>6. CASE pc' # "done"
  BY <1>1, <1>5, <1>6 DEF Moves, Contract!Next, Contract!Work, CallersLeft
<1>7. CASE pc' = "done"
  <2>1. Viewed' \in [Pos -> Pos]
    BY DEF Moves, IsArrangement
  <2>2. Partitioned(Memory', CallersLeft, first, IF Mirrored THEN N - lo' ELSE lo', last)
    BY <1>1, <1>2, <1>7, <2>1, SeenPartitioned DEF Moves
  <2>3. Returned' = IF Mirrored THEN N - lo' ELSE lo'
    BY <1>1 DEF Returned
  <2>4. Partitioned(Memory', CallersLeft, first, Returned', last)
    BY <2>2, <2>3
  <2>5. Contract!Partitioned(Memory', CallersLeft, first, Returned', last)
    BY <2>4 DEF Contract!Partitioned, Contract!AllIn, Contract!NoneIn,
       Partitioned, AllIn, NoneIn
  <2> QED
    BY <1>1, <1>5, <1>7, <2>5 DEF Moves, Contract!Next, Contract!Return, CallersLeft
<1> QED
  BY <1>6, <1>7

\* A step that changes nothing the kernel sees is invisible to the caller.
LEMMA StuttersImplements ==
    ASSUME [Next]_vars, pc # "call", pc' # "call", Stutters
    PROVE  UNCHANGED Contract!vars
<1>1. UNCHANGED <<first, last, Mirrored, CallersLeft>>
  BY CallFixed DEF call, CallersLeft, Rev
<1>2. Memory = Seen(Viewed) /\ Memory' = Seen(Viewed')
  BY <1>1, MemoryViewed
<1>3. Memory' = Memory
  BY <1>1, <1>2 DEF Stutters, Seen
<1> QED
  BY <1>1, <1>3 DEF Contract!vars, Stutters, Returned, CallersLeft

\* The dispatch moves nothing: mirroring the range twice is the memory itself.
LEMMA DispatchImplements ==
    ASSUME IInv, Dispatch
    PROVE  UNCHANGED Contract!vars
<1> USE NAssumption
<1>1. /\ UNCHANGED <<first, last, Mirrored, CallersLeft>>
      /\ v = [p \in Pos |-> p] /\ v' = Seen(v) /\ pc = "call" /\ kernel' = Dispatched
  BY Dispatches, CallFixed DEF Next, IInv, call, CallersLeft, Rev
<1>2. pc' # "call" /\ pc' # "done"
  BY DEF Dispatch
<1>3. Viewed' = v'
  BY <1>1, <1>2, DispatchGap DEF Viewed
<1>4. Memory' = Seen(Seen(v))
  BY <1>1, <1>2, <1>3, MemoryViewed
<1>5. Seen(Seen(v)) = v
  <2>1. ASSUME Mirrored PROVE Seen(Seen(v)) = v
    <3>1. \A p \in Pos : N - 1 - p \in Pos /\ N - 1 - (N - 1 - p) = p
      BY DEF Pos
    <3> QED
      BY <1>1, <2>1, <3>1 DEF Seen
  <2> QED
    BY <2>1 DEF Seen
<1>6. Memory = v
  BY <1>1 DEF Memory
<1> QED
  BY <1>1, <1>2, <1>4, <1>5, <1>6 DEF Contract!vars, CallersLeft

\* What the kernel that runs sees is an array of elements.
LEMMA ViewedType ==
    ASSUME IInv, pc # "call"
    PROVE  Viewed \in [Pos -> Pos]
<1>1. CASE kernel = "gap"
  BY <1>1 DEF IInv, Viewed, SK!GapIInv, SK!G!OneGap, SK!G!IsArrangement, SK!IsArrangement,
     SK!G!Pos, SK!Pos, Pos
<1>2. CASE kernel # "gap"
  BY <1>2 DEF IInv, Viewed, ScalarKernels, SK!IInv, SK!TypeOK, SK!Pos,
     SK!GuardedIInv, SK!HG!TypeOK, SK!HG!Pos, SK!LomutoIInv, SK!LM!TypeOK,
     SK!LM!Pos, IsArrangement, Pos
<1> QED
  BY <1>1, <1>2

LEMMA RefineInit == Init => Contract!Init
<1> SUFFICES ASSUME Init PROVE Contract!Init
  OBVIOUS
<1>1. Memory = v
  BY DEF Init, Memory
<1> QED
  BY <1>1 DEF Init, Contract!Init, Contract!Pos, Pos, CallersLeft

LEMMA RefineStep ==
    IInv /\ IInv' /\ KeyPreserved /\ [Next]_vars => [Contract!Next]_Contract!vars
<1> SUFFICES ASSUME IInv, IInv', KeyPreserved, [Next]_vars
             PROVE  Contract!Next \/ UNCHANGED Contract!vars
  OBVIOUS
<1>1. CASE Dispatch
  BY <1>1, DispatchImplements
<1>2. CASE RunHoare \/ RunGuarded \/ RunLomuto \/ RunGap \/ RunByContract
  <2>1. Moves \/ Stutters
    BY <1>2, HoareStep, GuardedStep, LomutoStep, GapStep, ContractStep
  <2>2. pc # "call" /\ pc' # "call"
    BY <1>2, RunHoareKeeps, RunGuardedKeeps, RunLomutoKeeps, RunGapKeeps, ContractKeeps
    DEF SK!IInv, SK!TypeOK, SK!GuardedIInv, SK!HG!TypeOK, SK!LomutoIInv,
        SK!LM!TypeOK, SK!GapIInv, SK!G!TypeOK
  <2> QED
    BY <2>1, <2>2, ViewedType, MovesImplements, StuttersImplements
<1>3. CASE Terminating \/ UNCHANGED vars
  <2>1. UNCHANGED vars
    BY <1>3 DEF Terminating
  <2>2. UNCHANGED <<first, last, Mirrored, CallersLeft, kernel, pc, v, lo>>
    BY <2>1, CallFixed DEF vars, call, CallersLeft, Rev
  <2>3. UNCHANGED Memory
    BY <2>1, <2>2 DEF Memory, Seen, vars, G!Restored, G!Open, G!Gap
  <2> QED
    BY <2>2, <2>3 DEF Contract!vars, CallersLeft, Returned
<1> QED
  BY <1>1, <1>2, <1>3 DEF Next

\* What the conversion makes of the key is fixed by the call.
LEMMA KeyPreservedStep == KeyPreserved /\ [Next]_vars => KeyPreserved'
<1> SUFFICES ASSUME KeyPreserved, [Next]_vars PROVE KeyPreserved'
  OBVIOUS
<1>1. UNCHANGED <<below, cast, Dispatched>>
  BY CallFixed DEF call
<1> QED
  BY <1>1 DEF KeyPreserved

\* Whatever the form, the algorithm, the size and the cutoffs, the caller gets
\* the contract of partition_api.hpp:5-27, for every key that compares as before
\* where compress_partition or block_simd_amd convert it (algorithms_amd.hpp:507
\* and the vector fills): of any other key the run api_key shows the opposite.
\* The calls of every other kernel get it for every key.
THEOREM Implementation == Spec /\ KeyPreserved => Implements
<1>1. Init => Contract!Init
  BY RefineInit
<1>2. IInv /\ IInv' /\ KeyPreserved /\ [Next]_vars => [Contract!Next]_Contract!vars
  BY RefineStep
<1>3. KeyPreserved /\ [Next]_vars => KeyPreserved'
  BY KeyPreservedStep
<1> QED
  BY <1>1, <1>2, <1>3, Invariance, PTL DEF Spec, Implements, Contract!Spec
=============================================================================
