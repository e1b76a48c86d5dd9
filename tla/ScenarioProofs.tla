---------------------------- MODULE ScenarioProofs ----------------------------
(***************************************************************************)
(* Proofs about the two parts that know the demo's scenarios.              *)
(*                                                                         *)
(* PortalValidation, for any number of scenarios, pages and requests:      *)
(* however requests overlap and crash, a scenario is confirmed only after  *)
(* a confirmation of it that found its evidence.  The property speaks of   *)
(* the file and of the pages; what reaches them is first held by a         *)
(* request, so the invariant asks the same of the state of every request   *)
(* that is about to save it or to answer with it.  Requests that wait for  *)
(* each other implement ValidationBook, and a single page that does so     *)
(* shows what is saved.                                                    *)
(*                                                                         *)
(* ScenarioControl, for any registry of scenarios with resources of their  *)
(* own: the set of enabled scenarios says what the cluster shows, and      *)
(* "Repair All" heals it.  The invariant says of a request that meets no   *)
(* other one how far each of its kubectl calls has brought the cluster.    *)
(***************************************************************************)
EXTENDS PortalValidation, ScenarioControl, FiniteSetTheorems, SequenceTheorems,
        WellFoundedInduction, TLAPS

\* What a request, the file or a page may hold.
Sound(state) ==
    /\ state.entries \in Entries
    /\ \A s \in Scenarios : state.entries[s].status = "confirmed" => s \in earned

GrantInv ==
    /\ op \in [Reqs -> Ops]
    /\ DOMAIN pc = Reqs /\ DOMAIN work = Reqs /\ DOMAIN shown = Tabs
    /\ file.is = "saved" => Sound(file.state)
    /\ \A t \in Tabs : shown[t] # Nothing => Sound(shown[t])
    /\ \A r \in Reqs : pc[r] \in {"saving", "writing", "answered"} => Sound(work[r])

\* Of the saved, shown and worked-on states nothing but the grants counts.
GrantParts == <<op, pc, work, shown, file, earned>>

LEMMA GrantUnchanged ==
  ASSUME GrantInv, UNCHANGED GrantParts
  PROVE  GrantInv'
  BY DEF GrantInv, GrantParts, Sound

\* More grants leave sound what was sound.
LEMMA SoundStays ==
  ASSUME NEW state, Sound(state), earned \subseteq earned'
  PROVE  Sound(state)'
  BY DEF Sound

\* A book of defaults is sound.
LEMMA DefaultSound == Sound(getDefaultState)
  BY DEF Sound, getDefaultState, WithCount, AwaitingEntry, Entries, Entry

LEMMA LoadedSound ==
  ASSUME GrantInv, loadState # Nothing
  PROVE  Sound(loadState)
  BY DefaultSound DEF GrantInv, loadState

LEMMA InitGrantInv == PortalInit => GrantInv
  BY DEF PortalInit, GrantInv, Ops

-----------------------------------------------------------------------------
(***************************************************************************)
(* The service: what it makes of a sound state is sound, once a            *)
(* confirmation has been counted as granted.                               *)
(***************************************************************************)
LEMMA ChangedSound ==
  ASSUME NEW state, NEW o \in Ops, Sound(state), earned \subseteq earned',
         o.kind = "confirm" => o.scenario \in earned'
  PROVE  Sound(Changed(state, o))'
  <1> DEFINE next == Changed(state, o)
  <1>1. CASE o.kind = "get"
    BY <1>1, SoundStays DEF Changed
  <1>2. CASE o.kind = "reset-all"
    BY <1>2 DEF Changed, Sound, getDefaultState, WithCount, AwaitingEntry, Entries, Entry
  <1>3. CASE o.kind = "update"
    <2>1. o.scenario \in Scenarios /\ o.evidence \in BOOLEAN
      BY <1>3 DEF Ops
    <2> QED
      BY <1>3, <2>1 DEF Changed, updateValidation, WithCount, Sound, Entries, Entry
  <1>4. CASE o.kind = "confirm"
    <2>1. o.scenario \in Scenarios
      BY <1>4 DEF Ops
    <2> QED
      BY <1>4, <2>1 DEF Changed, confirmValidation, WithCount, Sound, Entries, Entry
  <1>5. CASE o.kind = "reset"
    <2>1. o.scenario \in Scenarios
      BY <1>5 DEF Ops
    <2> QED
      BY <1>5, <2>1 DEF Changed, resetValidation, AwaitingEntry, WithCount, Sound, Entries, Entry
  <1> QED
    BY <1>1, <1>2, <1>3, <1>4, <1>5 DEF Ops

LEMMA HandleKeeps ==
  ASSUME GrantInv, NEW r \in Reqs, Handle(r)
  PROVE  GrantInv'
  <1>1. CASE ~ Served(loadState, op[r])
    BY <1>1 DEF GrantInv, Handle, Sound
  <1>2. CASE Served(loadState, op[r])
    <2>1. op[r] \in Ops
      BY DEF GrantInv
    <2>2. earned \subseteq earned'
      BY <1>2 DEF Handle
    <2>3. PICK next : next = Changed(loadState, op[r])
      OBVIOUS
    <2>4. Sound(next)'
      <3>1. CASE op[r].kind = "reset-all"
        <4>1. next = getDefaultState
          BY <2>3, <3>1 DEF Changed
        <4> QED
          BY <4>1 DEF Sound, getDefaultState, WithCount, AwaitingEntry, Entries, Entry
      <3>2. CASE op[r].kind # "reset-all"
        <4>1. PICK state : state = loadState
          OBVIOUS
        <4>2. PICK o \in Ops : o = op[r]
          BY <2>1
        <4>3. Sound(state)
          BY <1>2, <3>2, <4>1, LoadedSound DEF Served
        <4>4. ASSUME o.kind = "confirm" PROVE o.scenario \in earned'
          <5>1. o.scenario \in Scenarios
            BY <4>4 DEF Ops
          <5>2. loadState.entries[o.scenario].evidence
            BY <1>2, <4>2, <4>4 DEF Served, MayConfirm
          <5> QED
            BY <1>2, <4>2, <4>4, <5>1, <5>2 DEF Handle
        <4>5. Sound(Changed(state, o))'
          BY <2>2, <4>3, <4>4, ChangedSound
        <4>6. next = Changed(state, o)
          BY <2>3, <4>1, <4>2
        <4> QED
          BY <4>5, <4>6
      <3> QED
        BY <3>1, <3>2
    <2>5. work' = [work EXCEPT ![r] = next]
      BY <1>2, <2>3 DEF Handle
    <2> QED
      BY <1>2, <2>2, <2>4, <2>5, SoundStays DEF GrantInv, Handle
  <1> QED
    BY <1>1, <1>2

LEMMA OpenFileKeeps ==
  ASSUME GrantInv, NEW r \in Reqs, OpenFile(r)
  PROVE  GrantInv'
  BY DEF GrantInv, OpenFile, Sound

LEMMA WriteFileKeeps ==
  ASSUME GrantInv, NEW r \in Reqs, WriteFile(r)
  PROVE  GrantInv'
  <1>1. Sound(work[r])
    BY DEF GrantInv, WriteFile
  <1>2. file'.is = "saved" => file'.state = work[r]
    BY DEF WriteFile, Written
  <1> QED
    BY <1>1, <1>2 DEF GrantInv, WriteFile, Sound

LEMMA CrashKeeps ==
  ASSUME GrantInv, Crash
  PROVE  GrantInv'
  BY DEF GrantInv, Crash, Sound

-----------------------------------------------------------------------------
(***************************************************************************)
(* The pages                                                               *)
(***************************************************************************)
LEMMA SendKeeps ==
  ASSUME GrantInv, NEW r \in Reqs, NEW t \in Tabs, NEW o \in Ops, Send(r, t, o), UNCHANGED shown
  PROVE  GrantInv'
  BY DEF GrantInv, Send, Sound

\* A page can only ask for what the routes know.
LEMMA ClickableAreOps ==
  ASSUME NEW state, NEW o \in Clickable(state)
  PROVE  o \in Ops
  <1> DEFINE Awaiting == {s \in Scenarios : state.entries[s].status = "awaiting"}
  <1>1. CASE o \in [kind : {"update"}, scenario : Awaiting, evidence : BOOLEAN]
    BY <1>1 DEF Ops
  <1>2. CASE o \in [kind : {"confirm"}, scenario : {s \in Awaiting : canConfirm(state.entries[s])}]
    BY <1>2 DEF Ops
  <1>3. CASE o \in [kind : {"reset"}, scenario : Scenarios \ Awaiting]
    BY <1>3 DEF Ops
  <1> QED
    BY <1>1, <1>2, <1>3 DEF Clickable

LEMMA UseKeeps ==
  ASSUME GrantInv, NEW r \in Reqs, NEW t \in Tabs, Use(r, t)
  PROVE  GrantInv'
  <1>1. PICK o \in Ops : Send(r, t, o)
    <2>1. CASE Send(r, t, [kind |-> "reset-all"])
      BY <2>1 DEF Ops
    <2>2. CASE shown[t] # Nothing /\ \E o \in Clickable(shown[t]) : Send(r, t, o)
      BY <2>2, ClickableAreOps
    <2> QED
      BY <2>1, <2>2 DEF Use
  <1> QED
    BY <1>1, SendKeeps DEF Use

LEMMA MountKeeps ==
  ASSUME GrantInv, NEW r \in Reqs, NEW t \in Tabs, Mount(r, t)
  PROVE  GrantInv'
  <1>1. op' \in [Reqs -> Ops]
    BY DEF GrantInv, Mount, Ops
  <1> QED
    BY <1>1 DEF GrantInv, Mount, Sound

LEMMA DeliverKeeps ==
  ASSUME GrantInv, NEW r \in Reqs, Deliver(r)
  PROVE  GrantInv'
  <1>1. op' \in [Reqs -> Ops]
    BY DEF GrantInv, Deliver, Ops
  <1>2. \A t \in Tabs : shown'[t] \in {shown[t], Nothing} \/ Sound(shown'[t])
    BY DEF GrantInv, Deliver, ShownAfter
  <1> QED
    BY <1>1, <1>2 DEF GrantInv, Deliver, Sound

-----------------------------------------------------------------------------
LEMMA StepGrantInv == GrantInv /\ [PortalNext]_portalVars => GrantInv'
  <1> SUFFICES ASSUME GrantInv, [PortalNext]_portalVars
               PROVE  GrantInv'
    OBVIOUS
  <1>1. ASSUME NEW r \in Reqs, NEW t \in Tabs, Use(r, t) PROVE GrantInv'
    BY <1>1, UseKeeps
  <1>2. ASSUME NEW r \in Reqs, NEW t \in Tabs, Mount(r, t) PROVE GrantInv'
    BY <1>2, MountKeeps
  <1>3. ASSUME NEW r \in Reqs, Handle(r) PROVE GrantInv'
    BY <1>3, HandleKeeps
  <1>4. ASSUME NEW r \in Reqs, OpenFile(r) PROVE GrantInv'
    BY <1>4, OpenFileKeeps
  <1>5. ASSUME NEW r \in Reqs, WriteFile(r) PROVE GrantInv'
    BY <1>5, WriteFileKeeps
  <1>6. ASSUME NEW r \in Reqs, Deliver(r) PROVE GrantInv'
    BY <1>6, DeliverKeeps
  <1>7. CASE Crash
    BY <1>7, CrashKeeps
  <1>8. CASE UNCHANGED portalVars
    BY <1>8, GrantUnchanged DEF portalVars, GrantParts
  <1> QED
    BY <1>1, <1>2, <1>3, <1>4, <1>5, <1>6, <1>7, <1>8 DEF PortalNext

LEMMA GrantInvEnough == GrantInv => ConfirmedWasGranted
  BY DEF GrantInv, Sound, ConfirmedWasGranted, InFile, Shown

\* Whatever the overlaps, the crashes and the tails of longer files: nothing is
\* saved or shown as confirmed without a grant that found evidence in the file.
THEOREM ConfirmationsAreEarned == PortalSpec => []ConfirmedWasGranted
  <1>1. PortalSpec => []GrantInv
    BY InitGrantInv, StepGrantInv, PTL DEF PortalSpec
  <1> QED
    BY <1>1, GrantInvEnough, PTL

-----------------------------------------------------------------------------
(***************************************************************************)
(* The book.  While requests wait for each other, the one that is under    *)
(* way saves what the file it has read makes of what it was asked, and the *)
(* file is whole except between its opening and its writing.               *)
(***************************************************************************)
BookTypes ==
    /\ op \in [Reqs -> Ops]
    /\ DOMAIN pc = Reqs /\ DOMAIN work = Reqs
    /\ file.is \in {"absent", "empty", "garbled", "saved"}
    /\ file.is = "saved" => file.state \in States
    /\ \A r \in Reqs : pc[r] \in {"saving", "writing"} => work[r] \in States

Alone == \A q, r \in Reqs : pc[q] # "idle" /\ pc[r] # "idle" => q = r

BookInv ==
    /\ BookTypes
    /\ quiet =>
        /\ Alone
        /\ file.is # "garbled"
        /\ file.is = "empty" <=> \E r \in Reqs : pc[r] = "writing"
        /\ \A r \in Reqs : pc[r] = "saving" =>
               /\ op[r].kind # "get" /\ Served(loadState, op[r])
               /\ work[r] = Changed(loadState, op[r])

LEMMA CountedTyped ==
  ASSUME NEW entries \in Entries
  PROVE  WithCount(entries) \in States
  <1> DEFINE Confirmed == {s \in Scenarios : entries[s].status = "confirmed"}
  <1>1. Confirmed \in SUBSET Scenarios /\ IsFiniteSet(Scenarios)
    BY PortalAssumption
  <1>2. IsFiniteSet(Confirmed) /\ Cardinality(Confirmed) <= Cardinality(Scenarios)
    BY <1>1, FS_Subset
  <1>3. Cardinality(Confirmed) \in Nat /\ Cardinality(Scenarios) \in Nat
    BY <1>1, <1>2, FS_CardinalityType
  <1> QED
    BY <1>2, <1>3 DEF WithCount, calculateConfirmedCount, States

LEMMA LoadedTyped ==
  ASSUME BookTypes, loadState # Nothing
  PROVE  loadState \in States
  <1>1. getDefaultState \in States
    BY CountedTyped DEF getDefaultState, AwaitingEntry, Entries, Entry
  <1> QED
    BY <1>1 DEF BookTypes, loadState

LEMMA ChangedTyped ==
  ASSUME NEW state, NEW o \in Ops, state \in States \/ o.kind = "reset-all"
  PROVE  Changed(state, o) \in States
  <1>1. CASE o.kind = "reset-all"
    BY <1>1, CountedTyped DEF Changed, getDefaultState, AwaitingEntry, Entries, Entry
  <1>2. CASE o.kind # "reset-all"
    <2>1. state \in States /\ state.entries \in Entries
      BY <1>2 DEF States
    <2>2. CASE o.kind = "get"
      BY <2>1, <2>2 DEF Changed
    <2>3. CASE o.kind = "update"
      <3>1. [state.entries EXCEPT ![o.scenario].evidence = o.evidence] \in Entries
        BY <2>1, <2>3 DEF Ops, Entries, Entry
      <3> QED
        BY <2>3, <3>1, CountedTyped DEF Changed, updateValidation
    <2>4. CASE o.kind = "confirm"
      <3>1. [state.entries EXCEPT ![o.scenario].status = "confirmed"] \in Entries
        BY <2>1, <2>4 DEF Ops, Entries, Entry
      <3> QED
        BY <2>4, <3>1, CountedTyped DEF Changed, confirmValidation
    <2>5. CASE o.kind = "reset"
      <3>1. [state.entries EXCEPT ![o.scenario] = AwaitingEntry] \in Entries
        BY <2>1, <2>5 DEF Ops, Entries, Entry, AwaitingEntry
      <3> QED
        BY <2>5, <3>1, CountedTyped DEF Changed, resetValidation
    <2> QED
      BY <1>2, <2>2, <2>3, <2>4, <2>5 DEF Ops
  <1> QED
    BY <1>1, <1>2

LEMMA InitBookInv == PortalInit => BookInv
  BY DEF PortalInit, BookInv, BookTypes, Alone, Ops

LEMMA HandleBook ==
  ASSUME BookInv, NEW r \in Reqs, Handle(r)
  PROVE  BookInv'
  <1>1. op[r] \in Ops
    BY DEF BookInv, BookTypes
  <1>2. CASE ~ Served(loadState, op[r])
    BY <1>2 DEF BookInv, BookTypes, Alone, Handle, quiet, loadState
  <1>3. CASE Served(loadState, op[r])
    <2>1. PICK next : next = Changed(loadState, op[r])
      OBVIOUS
    <2>2. next \in States
      <3>1. loadState \in States \/ op[r].kind = "reset-all"
        BY <1>1, <1>3, LoadedTyped DEF Served, BookInv
      <3> QED
        BY <1>1, <2>1, <3>1, ChangedTyped
    <2>3. work' = [work EXCEPT ![r] = next]
      BY <1>3, <2>1 DEF Handle
    <2>4. BookTypes'
      BY <2>2, <2>3 DEF BookInv, BookTypes, Handle
    <2>5. loadState' = loadState /\ op' = op
      BY DEF loadState, Handle
    <2>6. \A q \in Reqs : Served(loadState, op[q])' = Served(loadState, op[q])
      BY <2>5 DEF Served, MayConfirm
    <2>7. Changed(loadState, op[r])' = next
      BY <2>1, <2>5 DEF Changed
    <2>8. ASSUME quiet'
          PROVE  /\ Alone'
                 /\ file'.is # "garbled"
                 /\ (file.is = "empty" <=> \E q \in Reqs : pc[q] = "writing")'
      BY <1>3, <2>8 DEF BookInv, BookTypes, Alone, Handle, quiet
    <2>9. ASSUME quiet', NEW q \in Reqs, pc'[q] = "saving"
          PROVE  (/\ op[q].kind # "get" /\ Served(loadState, op[q])
                  /\ work[q] = Changed(loadState, op[q]))'
      <3>1. q = r
        BY <2>8, <2>9 DEF Alone, BookInv, BookTypes, Handle, quiet
      <3>2. Served(loadState, op[q])'
        BY <1>3, <2>6, <3>1
      <3>3. work'[q] = next
        BY <2>3, <3>1 DEF BookInv, BookTypes
      <3>4. op'[q].kind # "get"
        BY <1>3, <2>9, <3>1 DEF Handle, BookInv, BookTypes
      <3> QED
        BY <2>7, <3>1, <3>2, <3>3, <3>4
    <2> QED
      BY <2>4, <2>8, <2>9 DEF BookInv
  <1> QED
    BY <1>2, <1>3

LEMMA OpenFileBook ==
  ASSUME BookInv, NEW r \in Reqs, OpenFile(r)
  PROVE  BookInv'
  BY DEF BookInv, BookTypes, Alone, OpenFile, quiet

LEMMA WriteFileBook ==
  ASSUME BookInv, NEW r \in Reqs, WriteFile(r)
  PROVE  BookInv'
  <1>1. work[r] \in States
    BY DEF BookInv, BookTypes, WriteFile
  <1>2. /\ file'.is \in {"saved", "garbled"} /\ (file'.is = "saved" => file'.state = work[r])
        /\ file.is = "empty" => file'.is = "saved"
    BY DEF WriteFile, Written
  <1>3. BookTypes'
    BY <1>1, <1>2 DEF BookInv, BookTypes, WriteFile
  <1>4. ASSUME quiet'
        PROVE  /\ Alone' /\ file'.is = "saved"
               /\ \A q \in Reqs : pc'[q] \notin {"saving", "writing"}
    BY <1>2, <1>4 DEF BookInv, BookTypes, Alone, WriteFile, quiet
  <1> QED
    BY <1>3, <1>4 DEF BookInv

LEMMA DeliverBook ==
  ASSUME BookInv, NEW r \in Reqs, Deliver(r)
  PROVE  BookInv'
  <1>1. BookTypes'
    BY DEF BookInv, BookTypes, Deliver, Ops
  <1>2. ASSUME quiet'
        PROVE  /\ Alone' /\ file'.is # "garbled"
               /\ (file.is = "empty" <=> \E q \in Reqs : pc[q] = "writing")'
               /\ \A q \in Reqs : pc'[q] # "saving"
    BY <1>2 DEF BookInv, BookTypes, Alone, Deliver, quiet
  <1> QED
    BY <1>1, <1>2 DEF BookInv

LEMMA CrashBook ==
  ASSUME BookInv, Crash
  PROVE  BookInv'
  <1>1. BookTypes'
    BY DEF BookInv, BookTypes, Crash
  <1>2. ASSUME quiet'
        PROVE  /\ Alone' /\ file'.is \notin {"garbled", "empty"}
               /\ \A q \in Reqs : pc'[q] \notin {"saving", "writing"}
    BY <1>2 DEF BookInv, BookTypes, Alone, Crash, quiet
  <1> QED
    BY <1>1, <1>2 DEF BookInv

\* A request that is sent leaves the past quiet only when it is the only one.
LEMMA SendBook ==
  ASSUME BookInv, NEW r \in Reqs, NEW t \in Tabs, NEW o \in Ops, Send(r, t, o)
  PROVE  BookInv'
  <1>1. BookTypes'
    BY DEF BookInv, BookTypes, Send
  <1>2. ASSUME quiet'
        PROVE  /\ Alone' /\ file'.is \notin {"garbled", "empty"}
               /\ \A q \in Reqs : pc'[q] \notin {"saving", "writing"}
    BY <1>2 DEF BookInv, BookTypes, Alone, Send, quiet
  <1> QED
    BY <1>1, <1>2 DEF BookInv

LEMMA UseBook ==
  ASSUME BookInv, NEW r \in Reqs, NEW t \in Tabs, Use(r, t)
  PROVE  BookInv'
  <1>1. CASE Send(r, t, [kind |-> "reset-all"])
    BY <1>1, SendBook DEF Ops
  <1>2. CASE shown[t] # Nothing /\ \E o \in Clickable(shown[t]) : Send(r, t, o)
    BY <1>2, ClickableAreOps, SendBook
  <1> QED
    BY <1>1, <1>2 DEF Use

LEMMA MountBook ==
  ASSUME BookInv, NEW r \in Reqs, NEW t \in Tabs, Mount(r, t)
  PROVE  BookInv'
  <1>1. BookTypes'
    BY DEF BookInv, BookTypes, Mount, Ops
  <1>2. ASSUME quiet'
        PROVE  /\ Alone' /\ file'.is \notin {"garbled", "empty"}
               /\ \A q \in Reqs : pc'[q] \notin {"saving", "writing"}
    BY <1>2 DEF BookInv, BookTypes, Alone, Mount, quiet
  <1> QED
    BY <1>1, <1>2 DEF BookInv

LEMMA StepBookInv == BookInv /\ [PortalNext]_portalVars => BookInv'
  <1> SUFFICES ASSUME BookInv, [PortalNext]_portalVars
               PROVE  BookInv'
    OBVIOUS
  <1>1. ASSUME NEW r \in Reqs, NEW t \in Tabs, Use(r, t) PROVE BookInv'
    BY <1>1, UseBook
  <1>2. ASSUME NEW r \in Reqs, NEW t \in Tabs, Mount(r, t) PROVE BookInv'
    BY <1>2, MountBook
  <1>3. ASSUME NEW r \in Reqs, Handle(r) PROVE BookInv'
    BY <1>3, HandleBook
  <1>4. ASSUME NEW r \in Reqs, OpenFile(r) PROVE BookInv'
    BY <1>4, OpenFileBook
  <1>5. ASSUME NEW r \in Reqs, WriteFile(r) PROVE BookInv'
    BY <1>5, WriteFileBook
  <1>6. ASSUME NEW r \in Reqs, Deliver(r) PROVE BookInv'
    BY <1>6, DeliverBook
  <1>7. CASE Crash
    BY <1>7, CrashBook
  <1>8. CASE UNCHANGED portalVars
    BY <1>8 DEF portalVars, BookInv, BookTypes, Alone, quiet, Served, MayConfirm, Changed, loadState
  <1> QED
    BY <1>1, <1>2, <1>3, <1>4, <1>5, <1>6, <1>7, <1>8 DEF PortalNext

-----------------------------------------------------------------------------
(***************************************************************************)
(* The steps of quiet requests are steps of the book.  It changes when the *)
(* file is opened; the file catches up when it is written.                 *)
(***************************************************************************)
NoWriter == \A r \in Reqs : pc[r] # "writing"

LEMMA BookAtRest ==
  NoWriter => Book = IF loadState = Nothing THEN getDefaultState.entries ELSE loadState.entries
  BY DEF NoWriter, Book

LEMMA BookWhileWriting ==
  ASSUME NEW r \in Reqs, pc[r] = "writing", Alone
  PROVE  Book = work[r].entries
  BY DEF Alone, Book

LEMMA RestingBookStays ==
  ASSUME NoWriter, NoWriter', file' = file
  PROVE  Book' = Book
  BY BookAtRest DEF NoWriter, Book, loadState

LEMMA OpenFileStep ==
  ASSUME BookInv, BookInv', quiet', NEW r \in Reqs, OpenFile(r)
  PROVE  B!Next
  <1>1. quiet /\ pc[r] = "saving" /\ NoWriter
    BY DEF OpenFile, quiet, BookInv, Alone, NoWriter
  <1>2. /\ op[r] \in Ops /\ op[r].kind # "get"
        /\ Served(loadState, op[r]) /\ work[r] = Changed(loadState, op[r])
    BY <1>1 DEF BookInv, BookTypes
  <1>3. Book = IF loadState = Nothing THEN getDefaultState.entries ELSE loadState.entries
    BY <1>1, BookAtRest
  <1>4. Book' = Changed(loadState, op[r]).entries
    <2>1. pc'[r] = "writing" /\ work' = work /\ Alone'
      BY DEF OpenFile, BookInv, BookTypes
    <2>2. \A q \in Reqs : pc'[q] = "writing" => q = r
      BY <2>1 DEF Alone
    <2>3. Book' = work'[r].entries
      BY <2>1, <2>2 DEF Book
    <2> QED
      BY <1>2, <2>1, <2>3
  <1>5. CASE op[r].kind = "reset-all"
    BY <1>4, <1>5 DEF Changed, getDefaultState, AwaitingEntry, WithCount,
                      B!Next, B!ResetAll, B!Init, B!Blank
  <1>6. CASE op[r].kind # "reset-all"
    <2>1. loadState # Nothing /\ Book = loadState.entries /\ loadState.entries \in Entries
      BY <1>2, <1>3, <1>6, LoadedTyped DEF Served, BookInv, States
    <2>2. CASE op[r].kind = "update"
      <3>1. op[r].scenario \in Scenarios /\ op[r].evidence \in BOOLEAN
        BY <1>2, <2>2 DEF Ops
      <3>2. Book' = [Book EXCEPT ![op[r].scenario].evidence = op[r].evidence]
        BY <1>4, <2>1, <2>2 DEF Changed, updateValidation, WithCount
      <3> QED
        BY <3>1, <3>2 DEF B!Next, B!Edit
    <2>3. CASE op[r].kind = "confirm"
      <3>1. op[r].scenario \in Scenarios
        BY <1>2, <2>3 DEF Ops
      <3>2. Book' = [Book EXCEPT ![op[r].scenario].status = "confirmed"]
        BY <1>4, <2>1, <2>3 DEF Changed, confirmValidation, WithCount
      <3>3. Book[op[r].scenario].evidence
        BY <1>2, <2>1, <2>3 DEF Served, MayConfirm
      <3> QED
        BY <3>1, <3>2, <3>3 DEF B!Next, B!Confirm
    <2>4. CASE op[r].kind = "reset"
      <3>1. op[r].scenario \in Scenarios
        BY <1>2, <2>4 DEF Ops
      <3>2. Book' = [Book EXCEPT ![op[r].scenario] = B!Blank]
        BY <1>4, <2>1, <2>4 DEF Changed, resetValidation, AwaitingEntry, WithCount, B!Blank
      <3> QED
        BY <3>1, <3>2 DEF B!Next, B!Reset
    <2> QED
      BY <1>2, <1>6, <2>2, <2>3, <2>4 DEF Ops
  <1> QED
    BY <1>5, <1>6

LEMMA WriteFileStep ==
  ASSUME BookInv, BookInv', quiet', NEW r \in Reqs, WriteFile(r)
  PROVE  Book' = Book
  <1>1. quiet /\ pc[r] = "writing" /\ Alone /\ file.is = "empty" /\ work[r] \in States
    BY DEF WriteFile, quiet, BookInv, BookTypes
  <1>2. Book = work[r].entries
    BY <1>1, BookWhileWriting
  <1>3. NoWriter' /\ file' = [is |-> "saved", state |-> work[r]]
    BY <1>1 DEF WriteFile, Written, Alone, NoWriter, BookInv, BookTypes
  <1>4. loadState' = work[r]
    BY <1>3 DEF loadState
  <1>5. work[r] # Nothing
    BY <1>1, NothingAssumption
  <1> QED
    BY <1>2, <1>3, <1>4, <1>5 DEF Book, NoWriter

LEMMA OtherSteps ==
  ASSUME BookInv, BookInv', quiet', PortalNext,
         \A r \in Reqs : ~ OpenFile(r) /\ ~ WriteFile(r)
  PROVE  Book' = Book
  <1>1. ASSUME NEW r \in Reqs, NEW t \in Tabs, Use(r, t) PROVE Book' = Book
    <2>1. PICK o : Send(r, t, o)
      BY <1>1 DEF Use
    <2>2. NoWriter /\ NoWriter' /\ file' = file
      BY <2>1 DEF Send, quiet, NoWriter, BookInv, BookTypes
    <2> QED
      BY <2>2, RestingBookStays
  <1>2. ASSUME NEW r \in Reqs, NEW t \in Tabs, Mount(r, t) PROVE Book' = Book
    <2>1. NoWriter /\ NoWriter' /\ file' = file
      BY <1>2 DEF Mount, quiet, NoWriter, BookInv, BookTypes
    <2> QED
      BY <2>1, RestingBookStays
  <1>3. ASSUME NEW r \in Reqs, Handle(r) PROVE Book' = Book
    <2>1. NoWriter /\ NoWriter' /\ file' = file
      BY <1>3 DEF Handle, quiet, Alone, NoWriter, BookInv, BookTypes
    <2> QED
      BY <2>1, RestingBookStays
  <1>4. ASSUME NEW r \in Reqs, Deliver(r) PROVE Book' = Book
    <2>1. NoWriter /\ NoWriter' /\ file' = file
      BY <1>4 DEF Deliver, quiet, Alone, NoWriter, BookInv, BookTypes
    <2> QED
      BY <2>1, RestingBookStays
  <1>5. ASSUME Crash PROVE Book' = Book
    <2>1. NoWriter /\ NoWriter' /\ file' = file
      BY <1>5 DEF Crash, quiet, NoWriter, BookInv, BookTypes
    <2> QED
      BY <2>1, RestingBookStays
  <1> QED
    BY <1>1, <1>2, <1>3, <1>4, <1>5 DEF PortalNext

LEMMA StepsKeepBook ==
  BookInv /\ BookInv' /\ [PortalNext]_portalVars => [quiet' => B!Next]_Book
  <1> SUFFICES ASSUME BookInv, BookInv', [PortalNext]_portalVars, quiet'
               PROVE  B!Next \/ Book' = Book
    OBVIOUS
  <1>1. CASE UNCHANGED portalVars
    <2>1. Book' = Book
      BY <1>1 DEF portalVars, Book, loadState
    <2> QED
      BY <2>1
  <1>2. ASSUME NEW r \in Reqs, OpenFile(r) PROVE B!Next
    BY <1>2, OpenFileStep
  <1>3. ASSUME NEW r \in Reqs, WriteFile(r) PROVE Book' = Book
    BY <1>3, WriteFileStep
  <1>4. CASE PortalNext /\ \A r \in Reqs : ~ OpenFile(r) /\ ~ WriteFile(r)
    BY <1>4, OtherSteps
  <1> QED
    BY <1>1, <1>2, <1>3, <1>4

\* Requests that wait for each other implement the validation book, also when
\* the backend crashes between its writes: no entry is lost or changes by itself.
THEOREM QuietRequestsImplementBook == PortalSpec => QuietRequestsKeepBook
  <1>1. PortalSpec => []BookInv
    BY InitBookInv, StepBookInv, PTL DEF PortalSpec
  <1> QED
    BY <1>1, StepsKeepBook, PTL DEF PortalSpec, QuietRequestsKeepBook

-----------------------------------------------------------------------------
(***************************************************************************)
(* One page.  While its requests wait for each other and the backend stays *)
(* up, the page shows the saved state except while its answer is under     *)
(* way, so what it asks for was enabled by the state that is saved.        *)
(***************************************************************************)
Kept(state) ==
    \A s \in Scenarios : state.entries[s].status = "confirmed" => canConfirm(state.entries[s])

PageInv ==
    /\ BookInv
    /\ DOMAIN tab = Reqs /\ DOMAIN shown = Tabs
    /\ past = "orderly" /\ OnePage =>
        /\ file.is = "saved" => Kept(file.state)
        /\ \A r \in Reqs :
              /\ pc[r] # "idle" => tab[r] \in Tabs
              /\ pc[r] # "lost"
              /\ pc[r] \in {"saving", "writing"} => Kept(work[r])
              /\ pc[r] = "answered" => work[r] = loadState
              /\ pc[r] = "sent" /\ op[r].kind = "update" =>
                    loadState.entries[op[r].scenario].status = "awaiting"
        /\ (\A r \in Reqs : pc[r] \notin {"writing", "answered"}) =>
              \A t \in Tabs : shown[t] \in {Nothing, loadState}

\* The state of no file has nothing confirmed.
LEMMA DefaultKept == Kept(getDefaultState)
  BY DEF Kept, getDefaultState, WithCount, AwaitingEntry

LEMMA InitPageInv == PortalInit => PageInv
  BY InitBookInv DEF PortalInit, PageInv

\* What a served request makes of a kept state is kept: a confirmation found evidence, and
\* an edit is of an entry that is not confirmed.
LEMMA ChangedKept ==
  ASSUME NEW state, NEW o \in Ops, o.kind # "reset-all" => state.entries \in Entries /\ Kept(state),
         Served(state, o),
         o.kind = "update" => state.entries[o.scenario].status = "awaiting"
  PROVE  Kept(Changed(state, o))
  <1>1. CASE o.kind = "get"
    BY <1>1 DEF Changed
  <1>2. CASE o.kind = "reset-all"
    BY <1>2, DefaultKept DEF Changed
  <1>3. CASE o.kind = "update"
    <2>1. o.scenario \in Scenarios
      BY <1>3 DEF Ops
    <2> DEFINE next == [state.entries EXCEPT ![o.scenario].evidence = o.evidence]
    <2>2. \A s \in Scenarios : s # o.scenario => next[s] = state.entries[s]
      BY <1>3, <2>1 DEF Entries
    <2>3. next[o.scenario].status = "awaiting"
      BY <1>3, <2>1 DEF Entries, Entry
    <2>4. Changed(state, o).entries = next
      BY <1>3 DEF Changed, updateValidation, WithCount
    <2> HIDE DEF next
    <2> QED BY <1>3, <2>2, <2>3, <2>4 DEF Kept
  <1>4. CASE o.kind = "confirm"
    <2>1. o.scenario \in Scenarios /\ state.entries[o.scenario].evidence
      BY <1>4 DEF Ops, Served, MayConfirm
    <2> DEFINE next == [state.entries EXCEPT ![o.scenario].status = "confirmed"]
    <2>2. \A s \in Scenarios : s # o.scenario => next[s] = state.entries[s]
      BY <1>4, <2>1 DEF Entries
    <2>3. next[o.scenario].evidence
      BY <1>4, <2>1 DEF Entries, Entry
    <2>4. Changed(state, o).entries = next
      BY <1>4 DEF Changed, confirmValidation, WithCount
    <2> HIDE DEF next
    <2> QED BY <1>4, <2>2, <2>3, <2>4 DEF Kept, canConfirm
  <1>5. CASE o.kind = "reset"
    <2>1. o.scenario \in Scenarios
      BY <1>5 DEF Ops
    <2> DEFINE next == [state.entries EXCEPT ![o.scenario] = AwaitingEntry]
    <2>2. \A s \in Scenarios : s # o.scenario => next[s] = state.entries[s]
      BY <1>5, <2>1 DEF Entries
    <2>3. next[o.scenario].status = "awaiting"
      BY <1>5, <2>1 DEF Entries, AwaitingEntry
    <2>4. Changed(state, o).entries = next
      BY <1>5 DEF Changed, resetValidation, WithCount
    <2> HIDE DEF next
    <2> QED BY <1>5, <2>2, <2>3, <2>4 DEF Kept
  <1> QED BY <1>1, <1>2, <1>3, <1>4, <1>5 DEF Ops

\* With one page and an orderly past the requests have waited for each other.
LEMMA OrderlyIsQuiet ==
  ASSUME BookInv, past = "orderly"
  PROVE  /\ quiet /\ Alone /\ file.is # "garbled"
         /\ file.is = "empty" <=> \E r \in Reqs : pc[r] = "writing"
  BY DEF BookInv, quiet

LEMMA LoadedKept ==
  ASSUME PageInv, past = "orderly", OnePage, loadState # Nothing
  PROVE  loadState \in States /\ loadState.entries \in Entries /\ Kept(loadState)
  <1>1. loadState \in States
    BY LoadedTyped DEF PageInv, BookInv
  <1>2. Kept(loadState)
    BY DefaultKept DEF PageInv, loadState
  <1> QED BY <1>1, <1>2 DEF States

LEMMA PageSendKeeps ==
  ASSUME PageInv, BookInv', NEW r \in Reqs, NEW t \in Tabs, NEW o \in Ops, Send(r, t, o),
         UNCHANGED shown,
         o.kind = "update" => shown[t] # Nothing /\ shown[t].entries[o.scenario].status = "awaiting"
  PROVE  PageInv'
  <1>1. DOMAIN tab' = Reqs /\ DOMAIN shown' = Tabs
    BY DEF Send, PageInv
  <1> SUFFICES ASSUME past' = "orderly", OnePage
               PROVE  /\ file'.is = "saved" => Kept(file.state)'
                      /\ \A q \in Reqs :
                            /\ pc'[q] # "idle" => tab'[q] \in Tabs
                            /\ pc'[q] # "lost"
                            /\ pc'[q] \in {"saving", "writing"} => Kept(work[q])'
                            /\ pc'[q] = "answered" => work'[q] = loadState'
                            /\ pc'[q] = "sent" /\ op'[q].kind = "update" =>
                                  loadState'.entries[op'[q].scenario].status = "awaiting"
                      /\ (\A q \in Reqs : pc'[q] \notin {"writing", "answered"}) =>
                            \A u \in Tabs : shown'[u] \in {Nothing, loadState'}
    BY <1>1 DEF PageInv, OnePage
  <1>2. past = "orderly" /\ \A q \in Reqs : pc[q] = "idle"
    BY DEF Send
  <1>3. \A u \in Tabs : shown[u] \in {Nothing, loadState}
    BY <1>2 DEF PageInv
  <1>4. file' = file /\ loadState' = loadState
    BY DEF Send, loadState
  <1>5. /\ pc'[r] = "sent" /\ op'[r] = o /\ tab'[r] = t
        /\ \A q \in Reqs \ {r} : pc'[q] = "idle"
    BY <1>2 DEF Send, PageInv, BookInv, BookTypes
  <1>6. file'.is = "saved" => Kept(file.state)'
    BY <1>2, <1>4 DEF PageInv, Kept
  <1> QED BY <1>2, <1>3, <1>4, <1>5, <1>6

LEMMA PageUseKeeps ==
  ASSUME PageInv, NEW r \in Reqs, NEW t \in Tabs, Use(r, t)
  PROVE  PageInv'
  <1>1. BookInv'
    BY UseBook DEF PageInv
  <1>2. CASE Send(r, t, [kind |-> "reset-all"])
    BY <1>1, <1>2, PageSendKeeps DEF Use, Ops
  <1>3. CASE shown[t] # Nothing /\ \E o \in Clickable(shown[t]) : Send(r, t, o)
    <2>1. PICK o \in Clickable(shown[t]) : Send(r, t, o)
      BY <1>3
    <2>2. o \in Ops
      BY <2>1, ClickableAreOps
    <2>3. o.kind = "update" => shown[t].entries[o.scenario].status = "awaiting"
      BY <2>1 DEF Clickable
    <2> QED BY <1>1, <1>3, <2>1, <2>2, <2>3, PageSendKeeps DEF Use
  <1> QED BY <1>2, <1>3 DEF Use

LEMMA PageMountKeeps ==
  ASSUME PageInv, NEW r \in Reqs, NEW t \in Tabs, Mount(r, t)
  PROVE  PageInv'
  <1>1. BookInv'
    BY MountBook DEF PageInv
  <1>2. DOMAIN tab' = Reqs /\ DOMAIN shown' = Tabs
    BY DEF Mount, PageInv
  <1> SUFFICES ASSUME past' = "orderly", OnePage
               PROVE  /\ file'.is = "saved" => Kept(file.state)'
                      /\ \A q \in Reqs :
                            /\ pc'[q] # "idle" => tab'[q] \in Tabs
                            /\ pc'[q] \notin {"lost", "saving", "writing", "answered"}
                            /\ pc'[q] = "sent" => op'[q].kind = "get"
                      /\ \A u \in Tabs : shown'[u] \in {Nothing, loadState'}
    BY <1>1, <1>2 DEF PageInv, OnePage
  <1>3. past = "orderly" /\ \A q \in Reqs : pc[q] = "idle"
    BY DEF Mount
  <1>4. file' = file /\ loadState' = loadState
    BY DEF Mount, loadState
  <1>5. /\ pc'[r] = "sent" /\ op'[r].kind = "get" /\ tab'[r] = t
        /\ \A q \in Reqs \ {r} : pc'[q] = "idle"
    BY <1>3 DEF Mount, PageInv, BookInv, BookTypes
  <1>6. \A u \in Tabs : shown'[u] \in {Nothing, loadState}
    BY <1>3 DEF Mount, PageInv
  <1>7. file'.is = "saved" => Kept(file.state)'
    BY <1>3, <1>4 DEF PageInv, Kept
  <1> QED BY <1>4, <1>5, <1>6, <1>7

LEMMA PageHandleKeeps ==
  ASSUME PageInv, NEW r \in Reqs, Handle(r)
  PROVE  PageInv'
  <1>1. BookInv'
    BY HandleBook DEF PageInv
  <1>2. /\ DOMAIN tab' = Reqs /\ DOMAIN shown' = Tabs /\ pc[r] = "sent"
        /\ UNCHANGED <<file, op, tab, shown, past>> /\ loadState' = loadState
        /\ op[r] \in Ops /\ DOMAIN pc = Reqs /\ DOMAIN work = Reqs
    BY DEF Handle, PageInv, loadState, BookInv, BookTypes
  <1> SUFFICES ASSUME past = "orderly", OnePage
               PROVE  /\ file'.is = "saved" => Kept(file.state)'
                      /\ \A q \in Reqs :
                            /\ pc'[q] # "idle" => tab'[q] \in Tabs
                            /\ pc'[q] # "lost"
                            /\ pc'[q] \in {"saving", "writing"} => Kept(work[q])'
                            /\ pc'[q] = "answered" => work'[q] = loadState'
                            /\ pc'[q] = "sent" /\ op'[q].kind = "update" =>
                                  loadState'.entries[op'[q].scenario].status = "awaiting"
                      /\ (\A q \in Reqs : pc'[q] \notin {"writing", "answered"}) =>
                            \A u \in Tabs : shown'[u] \in {Nothing, loadState'}
    BY <1>1, <1>2 DEF PageInv, OnePage
  <1>3. file'.is = "saved" => Kept(file.state)'
    BY <1>2 DEF PageInv, Kept
  <1>4. Alone /\ \A q \in Reqs \ {r} : pc[q] = "idle" /\ pc'[q] = "idle"
    BY <1>2, OrderlyIsQuiet DEF PageInv, Alone, Handle
  <1>5. \A u \in Tabs : shown'[u] \in {Nothing, loadState'}
    BY <1>2, <1>4 DEF PageInv
  <1>6. tab'[r] \in Tabs
    BY <1>2 DEF PageInv
  <1>7. CASE ~ Served(loadState, op[r])
    <2>1. pc'[r] = "failed"
      BY <1>2, <1>7 DEF Handle
    <2> QED BY <1>3, <1>4, <1>5, <1>6, <2>1
  <1>8. CASE Served(loadState, op[r])
    <2>1. /\ pc'[r] = IF op[r].kind = "get" THEN "answered" ELSE "saving"
          /\ work'[r] = Changed(loadState, op[r])
      BY <1>2, <1>8 DEF Handle
    <2>2. op[r].kind = "get" => work'[r] = loadState'
      BY <1>2, <2>1 DEF Changed
    <2>3. Kept(work'[r])
      <3>1. PICK state : state = loadState
        OBVIOUS
      <3>2. PICK o \in Ops : o = op[r]
        BY <1>2
      <3>3. o.kind # "reset-all" => state.entries \in Entries /\ Kept(state)
        BY <1>8, <3>1, <3>2, LoadedKept DEF Served
      <3>4. o.kind = "update" => state.entries[o.scenario].status = "awaiting"
        BY <1>2, <3>1, <3>2 DEF PageInv
      <3>5. Kept(Changed(state, o))
        BY <1>8, <3>1, <3>2, <3>3, <3>4, ChangedKept
      <3> QED BY <2>1, <3>1, <3>2, <3>5
    <2> QED BY <1>3, <1>4, <1>5, <1>6, <2>1, <2>2, <2>3 DEF Kept
  <1> QED BY <1>7, <1>8

LEMMA PageOpenFileKeeps ==
  ASSUME PageInv, NEW r \in Reqs, OpenFile(r)
  PROVE  PageInv'
  <1>1. BookInv'
    BY OpenFileBook DEF PageInv
  <1>2. /\ DOMAIN tab' = Reqs /\ DOMAIN shown' = Tabs /\ pc[r] = "saving" /\ pc'[r] = "writing"
        /\ UNCHANGED <<op, tab, work, shown, past>> /\ file'.is = "empty"
    BY DEF OpenFile, PageInv, BookInv, BookTypes
  <1>3. ASSUME past = "orderly", OnePage
        PROVE  /\ \A q \in Reqs \ {r} : pc'[q] = "idle"
               /\ tab'[r] \in Tabs /\ Kept(work[r])'
    <2>1. \A q \in Reqs \ {r} : pc[q] = "idle"
      BY <1>2, <1>3, OrderlyIsQuiet DEF PageInv, Alone
    <2> QED BY <1>2, <1>3, <2>1 DEF PageInv, Kept, OpenFile, BookInv, BookTypes
  <1> QED BY <1>1, <1>2, <1>3 DEF PageInv, OnePage

LEMMA PageWriteFileKeeps ==
  ASSUME PageInv, NEW r \in Reqs, WriteFile(r)
  PROVE  PageInv'
  <1>1. BookInv'
    BY WriteFileBook DEF PageInv
  <1>2. /\ DOMAIN tab' = Reqs /\ DOMAIN shown' = Tabs /\ pc[r] = "writing" /\ pc'[r] = "answered"
        /\ UNCHANGED <<op, tab, work, shown, past>>
    BY DEF WriteFile, PageInv, BookInv, BookTypes
  <1>3. ASSUME past = "orderly", OnePage
        PROVE  /\ \A q \in Reqs \ {r} : pc'[q] = "idle"
               /\ tab'[r] \in Tabs /\ Kept(work[r])
               /\ file' = [is |-> "saved", state |-> work[r]]
    <2>1. \A q \in Reqs \ {r} : pc[q] = "idle"
      BY <1>2, <1>3, OrderlyIsQuiet DEF PageInv, Alone
    <2>2. file.is = "empty"
      BY <1>2, <1>3, OrderlyIsQuiet DEF PageInv
    <2> QED BY <1>2, <1>3, <2>1, <2>2 DEF PageInv, Kept, WriteFile, Written, BookInv, BookTypes
  <1>4. ASSUME past = "orderly", OnePage
        PROVE  loadState' = work'[r] /\ Kept(file.state)'
    BY <1>2, <1>3, <1>4 DEF loadState, Kept
  <1> QED BY <1>1, <1>2, <1>3, <1>4 DEF PageInv, OnePage

LEMMA PageDeliverKeeps ==
  ASSUME PageInv, NEW r \in Reqs, Deliver(r)
  PROVE  PageInv'
  <1>1. BookInv'
    BY DeliverBook DEF PageInv
  <1>2. /\ DOMAIN tab' = Reqs /\ DOMAIN shown' = Tabs /\ DOMAIN pc = Reqs
        /\ UNCHANGED <<file, past>> /\ loadState' = loadState
    BY DEF Deliver, PageInv, BookInv, BookTypes, loadState
  <1>3. ASSUME past = "orderly", OnePage
        PROVE  /\ \A q \in Reqs : pc'[q] = "idle"
               /\ \A u \in Tabs : shown'[u] \in {Nothing, loadState}
    <2>1. pc[r] \in {"answered", "failed"} /\ \A q \in Reqs \ {r} : pc[q] = "idle"
      BY <1>3, OrderlyIsQuiet DEF PageInv, Alone, Deliver
    <2>2. \A q \in Reqs : pc'[q] = "idle"
      BY <1>2, <2>1 DEF Deliver
    <2>3. tab[r] \in Tabs /\ \A u \in Tabs : u = tab[r]
      BY <1>3, <2>1 DEF PageInv, OnePage
    <2>4. shown' = [shown EXCEPT ![tab[r]] = ShownAfter(r, shown[tab[r]])]
      BY <2>3, PortalAssumption DEF Deliver
    <2>5. ShownAfter(r, shown[tab[r]]) \in {Nothing, loadState}
      <3>1. CASE pc[r] = "answered"
        BY <1>3, <3>1 DEF ShownAfter, PageInv
      <3>2. CASE pc[r] = "failed"
        <4>1. shown[tab[r]] \in {Nothing, loadState}
          BY <1>3, <2>1, <2>3, <3>2 DEF PageInv
        <4> QED BY <3>2, <4>1 DEF ShownAfter
      <3> QED BY <2>1, <3>1, <3>2
    <2>6. shown'[tab[r]] = ShownAfter(r, shown[tab[r]])
      BY <2>3, <2>4 DEF PageInv
    <2>7. \A u \in Tabs : shown'[u] \in {Nothing, loadState}
      BY <2>3, <2>5, <2>6
    <2> QED BY <2>2, <2>7
  <1>4. ASSUME past = "orderly", OnePage PROVE file'.is = "saved" => Kept(file.state)'
    BY <1>2, <1>4 DEF PageInv, Kept
  <1> QED BY <1>1, <1>2, <1>3, <1>4 DEF PageInv, OnePage

LEMMA StepPageInv == PageInv /\ [PortalNext]_portalVars => PageInv'
  <1> SUFFICES ASSUME PageInv, [PortalNext]_portalVars PROVE PageInv'
    OBVIOUS
  <1>1. CASE Crash
    <2>1. past' # "orderly" /\ BookInv' /\ UNCHANGED <<tab, shown>>
      BY <1>1, CrashBook DEF Crash, PageInv
    <2> QED BY <2>1 DEF PageInv
  <1>2. CASE UNCHANGED portalVars
    <2>1. BookInv' /\ loadState' = loadState
      BY <1>2, StepBookInv DEF PageInv, portalVars, loadState
    <2> QED BY <1>2, <2>1 DEF portalVars, PageInv, OnePage, Kept
  <1> QED
    BY <1>1, <1>2, PageUseKeeps, PageMountKeeps, PageHandleKeeps, PageOpenFileKeeps,
       PageWriteFileKeeps, PageDeliverKeeps DEF PortalNext

\* One page, with a backend that stays up, shows what is saved whenever it has all its
\* answers, and no entry is saved as confirmed without its evidence.
THEOREM OnePageStaysInStep == PortalSpec => []OnePageInStep
  <1>1. PortalSpec => []PageInv
    BY InitPageInv, StepPageInv, PTL DEF PortalSpec
  <1>2. PageInv => OnePageInStep
    BY DEF PageInv, OnePageInStep, InFile, Shown, Kept
  <1> QED BY <1>1, <1>2, PTL

-----------------------------------------------------------------------------
(***************************************************************************)
(* Break scenarios: what a flattened sequence holds.  There is no          *)
(* induction over its parts: the shortest prefix that went wrong would     *)
(* have a shorter one.                                                     *)
(***************************************************************************)
LEMMA LeastNatural ==
  ASSUME NEW S \in SUBSET Nat, S # {}
  PROVE  \E m \in S : \A n \in S : m <= n
  <1>1. PICK m \in S : \A n \in S : <<n, m>> \notin OpToRel(<, Nat)
    BY WFMin, NatLessThanWellFounded, Zenon
  <1>2. \A n \in S : ~ n < m
    BY <1>1, Zenon DEF OpToRel
  <1> QED BY <1>2

\* The equation FlattenSeq solves has a solution.
LEMMA FlattenExists ==
  ASSUME NEW S, NEW seqs \in Seq(S), NEW m \in Nat
  PROVE  \E f : f = [i \in 1..m |-> IF i = 1 THEN seqs[i] ELSE f[i-1] \o seqs[i]]
  <1> DEFINE Solved(n, f) == f = [i \in 1..n |-> IF i = 1 THEN seqs[i] ELSE f[i-1] \o seqs[i]]
             bad == {n \in Nat : ~ \E f : Solved(n, f)}
  <1>1. SUFFICES ASSUME bad # {} PROVE FALSE
    OBVIOUS
  <1>2. PICK n \in bad : \A k \in bad : n <= k
    BY <1>1, LeastNatural
  <1>3. n # 0
    <2>1. Solved(0, [i \in 1..0 |-> <<>>])
      OBVIOUS
    <2> QED BY <1>2, <2>1
  <1>4. n - 1 \in Nat /\ n - 1 \notin bad
    <2>1. n \in Nat
      BY <1>2
    <2> HIDE DEF bad
    <2> QED BY <1>2, <1>3, <2>1
  <1>5. PICK g : Solved(n - 1, g)
    BY <1>4
  <1> DEFINE f == [i \in 1..n |-> IF i = n THEN (IF n = 1 THEN seqs[n] ELSE g[n-1] \o seqs[n]) ELSE g[i]]
  <1>6. \A i \in 1..(n-1) : g[i] = IF i = 1 THEN seqs[i] ELSE g[i-1] \o seqs[i]
    BY <1>5
  <1>7. ASSUME NEW i \in 1..n
        PROVE  f[i] = IF i = 1 THEN seqs[i] ELSE f[i-1] \o seqs[i]
    <2>1. CASE i = n
      BY <2>1, <1>3, <1>4
    <2>2. CASE i # n
      <3>1. i \in 1..(n-1) /\ (i # 1 => i - 1 \in 1..n /\ i - 1 # n)
        BY <2>2, <1>4
      <3>2. f[i] = g[i] /\ (i # 1 => f[i-1] = g[i-1])
        BY <2>2, <3>1
      <3> QED BY <1>6, <3>1, <3>2
    <2> QED BY <2>1, <2>2
  <1>8. Solved(n, f)
    <2>1. DOMAIN f = 1..n /\ f = [i \in 1..n |-> f[i]]
      OBVIOUS
    <2> HIDE DEF f
    <2> QED BY <1>7, <2>1
  <1> QED BY <1>2, <1>8

\* What is in a flattened sequence is in one of its parts.
LEMMA FlattenProperties ==
  ASSUME NEW C, NEW seqs \in Seq(Seq(C))
  PROVE  /\ FlattenSeq(seqs) \in Seq(C)
         /\ Range(FlattenSeq(seqs)) = UNION {Range(seqs[i]) : i \in DOMAIN seqs}
  <1>1. CASE Len(seqs) = 0
    <2>1. seqs = <<>> /\ FlattenSeq(seqs) = <<>>
      BY <1>1 DEF FlattenSeq
    <2>2. DOMAIN seqs = {} /\ Range(<<>>) = {}
      BY <2>1 DEF Range
    <2>3. {Range(seqs[i]) : i \in DOMAIN seqs} = {}
      BY <2>2
    <2>4. <<>> \in Seq(C)
      OBVIOUS
    <2> QED BY <2>1, <2>2, <2>3, <2>4
  <1>2. CASE Len(seqs) # 0
    <2> DEFINE len == Len(seqs)
               Solves(f) == f = [i \in 1..len |-> IF i = 1 THEN seqs[i] ELSE f[i-1] \o seqs[i]]
               flat == CHOOSE f : Solves(f)
               held(i) == UNION {Range(seqs[j]) : j \in 1..i}
               bad == {i \in 1..len : ~ (flat[i] \in Seq(C) /\ Range(flat[i]) = held(i))}
    <2>1. len \in Nat /\ len > 0 /\ DOMAIN seqs = 1..len
      BY <1>2
    <2>2. \E f : Solves(f)
      BY <2>1, FlattenExists
    <2>3. Solves(flat)
      BY <2>2
    <2>4. FlattenSeq(seqs) = flat[len]
      BY <1>2 DEF FlattenSeq
    <2>5. \A i \in 1..len : flat[i] = IF i = 1 THEN seqs[i] ELSE flat[i-1] \o seqs[i]
      BY <2>3
    <2> HIDE DEF flat
    <2>6. bad = {}
      <3>1. SUFFICES ASSUME bad # {} PROVE FALSE
        OBVIOUS
      <3>2. PICK n \in bad : \A k \in bad : n <= k
        <4>1. bad \in SUBSET Nat
          BY <2>1
        <4> HIDE DEF bad
        <4> QED BY <3>1, <4>1, LeastNatural
      <3>3. n \in 1..len /\ seqs[n] \in Seq(C)
        BY <2>1, <3>2
      <3>4. CASE n = 1
        <4>1. flat[n] = seqs[1]
          BY <2>5, <3>3, <3>4
        <4>2. held(n) = Range(seqs[1])
          <5>1. 1..n = {1}
            BY <3>4
          <5> QED BY <5>1
        <4> QED BY <3>2, <3>3, <3>4, <4>1, <4>2
      <3>5. CASE n # 1
        <4>1. n - 1 \in 1..len /\ n - 1 \notin bad
          <5> HIDE DEF bad, len
          <5> QED BY <2>1, <3>2, <3>3, <3>5
        <4>2. flat[n-1] \in Seq(C) /\ Range(flat[n-1]) = held(n-1)
          BY <4>1
        <4>3. flat[n] = flat[n-1] \o seqs[n]
          BY <2>5, <3>3, <3>5
        <4>4. held(n) = held(n-1) \cup Range(seqs[n])
          <5>1. 1..n = (1..(n-1)) \cup {n}
            BY <3>3
          <5> HIDE DEF len
          <5> QED BY <5>1
        <4>5. flat[n] \in Seq(C) /\ Range(flat[n]) = Range(flat[n-1]) \cup Range(seqs[n])
          BY <3>3, <4>2, <4>3, RangeConcatenation, ConcatProperties
        <4> QED BY <3>2, <4>2, <4>4, <4>5
      <3> QED BY <3>4, <3>5
    <2>7. len \in 1..len
      BY <2>1
    <2>8. flat[len] \in Seq(C) /\ Range(flat[len]) = held(len)
      BY <2>6, <2>7
    <2> QED BY <2>1, <2>4, <2>8
  <1> QED BY <1>1, <1>2

-----------------------------------------------------------------------------
(***************************************************************************)
(* Plans                                                                   *)
(***************************************************************************)
Base == [do |-> "base"]
Apply(s) == [do |-> "apply", on |-> s]
Delete(r) == [do |-> "delete", on |-> r]

Broken(scenarios) == UNION {Breaks(s) : s \in scenarios}
Touched(commands) == UNION {Targets(cmd) : cmd \in commands}

LEMMA RegistryFacts ==
  /\ DOMAIN Registry = 1..Len(Registry) /\ Len(Registry) \in Nat
  /\ \A i \in DOMAIN Registry : Registry[i] \in ScenarioNames
  /\ \A s \in ScenarioNames : \E i \in DOMAIN Registry : Registry[i] = s
  /\ \A i, j \in DOMAIN Registry : Registry[i] = Registry[j] => i = j
  BY ScenarioAssumption DEF ScenarioNames, Range, IsInjective

LEMMA BreaksFacts ==
  /\ \A s \in ScenarioNames : Breaks(s) \subseteq Resources
  /\ \A s, t \in ScenarioNames : s # t => Breaks(s) \cap Breaks(t) = {}
  /\ BaseBacked \subseteq Resources
  /\ \A s \in ScenarioNames \ BaseBacked : Breaks(s) = Range(Extras[s]) /\ Breaks(s) \cap BaseBacked = {}
  /\ \A s \in BaseBacked : Breaks(s) = {s} /\ s \in ScenarioNames
  <1>1. /\ \A s \in ScenarioNames : Breaks(s) \subseteq Resources
        /\ \A s, t \in ScenarioNames : s # t => Breaks(s) \cap Breaks(t) = {}
    BY ScenarioAssumption DEF Resources
  <1>2. \A s \in BaseBacked : Breaks(s) = {s} /\ s \in ScenarioNames
    BY ScenarioAssumption DEF Breaks
  <1>3. BaseBacked \subseteq Resources
    BY <1>1, <1>2
  <1>4. ASSUME NEW s \in ScenarioNames \ BaseBacked
        PROVE  Breaks(s) = Range(Extras[s]) /\ Breaks(s) \cap BaseBacked = {}
    <2>1. \A b \in BaseBacked : b \notin Breaks(s)
      BY <1>1, <1>2
    <2> QED BY <2>1 DEF Breaks
  <1> QED BY <1>1, <1>2, <1>3, <1>4

LEMMA CommandFacts ==
  /\ Base \in Commands
  /\ \A s \in ScenarioNames : Apply(s) \in Commands
  /\ \A r \in Resources \ BaseBacked : Delete(r) \in Commands
  /\ Targets(Base) = BaseBacked
  /\ \A s : Targets(Apply(s)) = Breaks(s)
  /\ \A r : Targets(Delete(r)) = {r}
  /\ \A cmd \in Commands : Targets(cmd) \subseteq Resources
  <1>1. \A cmd \in Commands : Targets(cmd) \subseteq Resources
    BY BreaksFacts DEF Commands, Targets
  <1> QED BY <1>1 DEF Commands, Base, Apply, Delete, Targets

\* The calls that delete the resources a scenario has added.
LEMMA DeletesFacts ==
  ASSUME NEW s \in ScenarioNames
  PROVE  /\ Deletes(Extras[s]) \in Seq(Commands)
         /\ Range(Deletes(Extras[s])) = {Delete(r) : r \in Range(Extras[s])}
         /\ Deletes(Extras[s]) = <<>> <=> s \in BaseBacked
  <1> DEFINE extras == Extras[s]
             deletes == Deletes(extras)
  <1>1. extras \in Seq(Range(extras)) /\ (extras = <<>> <=> s \in BaseBacked)
    BY ScenarioAssumption
  <1>2. Len(extras) \in Nat /\ DOMAIN extras = 1..Len(extras)
    BY <1>1
  <1>3. deletes = [i \in 1..Len(extras) |-> Delete(extras[i])]
    BY DEF Deletes, Delete
  <1>4. \A i \in 1..Len(extras) : extras[i] \in Resources \ BaseBacked
    <2>1. CASE s \in BaseBacked
      BY <1>1, <2>1
    <2>2. CASE s \notin BaseBacked
      BY <1>2, <2>2, BreaksFacts DEF Range
    <2> QED BY <2>1, <2>2
  <1>5. \A i \in 1..Len(extras) : Delete(extras[i]) \in Commands
    BY <1>4, CommandFacts
  <1> HIDE DEF extras
  <1>6. deletes \in Seq(Commands) /\ DOMAIN deletes = 1..Len(extras) /\ Len(deletes) = Len(extras)
    BY <1>2, <1>3, <1>5
  <1>7. Range(deletes) = {Delete(r) : r \in Range(extras)}
    BY <1>2, <1>3, <1>6 DEF Range
  <1>8. deletes = <<>> <=> extras = <<>>
    BY <1>1, <1>2, <1>6
  <1> QED BY <1>1, <1>6, <1>7, <1>8 DEF extras

\* Fixing everything deletes all there is to delete.
LEMMA DeleteAllFacts ==
  /\ deleteAllExtraScenarioResources \in Seq(Commands)
  /\ Range(deleteAllExtraScenarioResources) =
        {Delete(r) : r \in UNION {Range(Extras[s]) : s \in ScenarioNames}}
  <1> DEFINE parts == [i \in 1..Len(Registry) |-> Deletes(Extras[Registry[i]])]
  <1>1. \A i \in 1..Len(Registry) :
           /\ Deletes(Extras[Registry[i]]) \in Seq(Commands)
           /\ Range(Deletes(Extras[Registry[i]])) = {Delete(r) : r \in Range(Extras[Registry[i]])}
    BY RegistryFacts, DeletesFacts
  <1>2. parts \in Seq(Seq(Commands)) /\ DOMAIN parts = 1..Len(Registry)
    BY <1>1, RegistryFacts
  <1>3. deleteAllExtraScenarioResources = FlattenSeq(parts)
    BY DEF deleteAllExtraScenarioResources
  <1>4. \A i \in DOMAIN parts : Range(parts[i]) = {Delete(r) : r \in Range(Extras[Registry[i]])}
    BY <1>1, <1>2
  <1> HIDE DEF parts
  <1>5. /\ FlattenSeq(parts) \in Seq(Commands)
        /\ Range(FlattenSeq(parts)) = UNION {Range(parts[i]) : i \in DOMAIN parts}
    BY <1>2, FlattenProperties
  <1>6. UNION {Range(parts[i]) : i \in DOMAIN parts} =
           {Delete(r) : r \in UNION {Range(Extras[s]) : s \in ScenarioNames}}
    <2>1. DOMAIN parts = DOMAIN Registry
      BY <1>2, RegistryFacts
    <2>2. ASSUME NEW i \in DOMAIN parts, NEW x \in Range(parts[i])
          PROVE  x \in {Delete(r) : r \in UNION {Range(Extras[s]) : s \in ScenarioNames}}
      <3>1. PICK r \in Range(Extras[Registry[i]]) : x = Delete(r)
        BY <1>4, <2>2
      <3>2. Registry[i] \in ScenarioNames
        BY <2>1, RegistryFacts
      <3> QED BY <3>1, <3>2
    <2>3. ASSUME NEW s \in ScenarioNames, NEW r \in Range(Extras[s])
          PROVE  Delete(r) \in UNION {Range(parts[i]) : i \in DOMAIN parts}
      <3>1. PICK i \in DOMAIN parts : Registry[i] = s
        BY <2>1, RegistryFacts
      <3>2. Delete(r) \in Range(parts[i])
        BY <1>4, <3>1
      <3> QED BY <3>2
    <2> QED BY <2>2, <2>3
  <1> QED BY <1>3, <1>5, <1>6

LEMMA SequenceFacts ==
  ASSUME NEW S, NEW q \in Seq(S), q # <<>>
  PROVE  /\ Head(q) \in S /\ Tail(q) \in Seq(S)
         /\ Range(q) = {Head(q)} \cup Range(Tail(q))
         /\ Len(q) > 1 <=> Tail(q) # <<>>
         /\ Range(Tail(q)) \subseteq S
  <1>1. Len(q) \in Nat /\ Len(q) > 0 /\ DOMAIN q = 1..Len(q)
    OBVIOUS
  <1>2. Head(q) \in S /\ Tail(q) \in Seq(S) /\ Len(Tail(q)) = Len(q) - 1
    BY <1>1
  <1>3. DOMAIN Tail(q) = 1..(Len(q) - 1) /\ \A i \in 1..(Len(q) - 1) : Tail(q)[i] = q[i+1]
    BY <1>1
  <1>4. ASSUME NEW x \in Range(q) PROVE x \in {Head(q)} \cup Range(Tail(q))
    <2>1. PICK i \in 1..Len(q) : x = q[i]
      BY <1>1 DEF Range
    <2>2. CASE i = 1
      BY <2>1, <2>2
    <2>3. CASE i # 1
      <3>1. i - 1 \in 1..(Len(q) - 1) /\ (i - 1) + 1 = i
        BY <1>1, <2>3
      <3>2. Tail(q)[i - 1] = q[i]
        BY <1>3, <3>1
      <3> QED BY <1>3, <2>1, <3>1, <3>2 DEF Range
    <2> QED BY <2>2, <2>3
  <1>5. ASSUME NEW x \in {Head(q)} \cup Range(Tail(q)) PROVE x \in Range(q)
    <2>1. CASE x = Head(q)
      <3>1. x = q[1] /\ 1 \in DOMAIN q
        BY <1>1, <2>1
      <3> QED BY <3>1 DEF Range
    <2>2. CASE x \in Range(Tail(q))
      <3>1. PICK i \in 1..(Len(q) - 1) : x = q[i+1]
        BY <1>3, <2>2 DEF Range
      <3>2. i + 1 \in DOMAIN q
        BY <1>1, <3>1
      <3> QED BY <3>1, <3>2 DEF Range
    <2> QED BY <2>1, <2>2
  <1>6. Len(q) > 1 <=> Tail(q) # <<>>
    <2>1. Tail(q) = <<>> <=> Len(Tail(q)) = 0
      BY <1>2, EmptySeq
    <2>2. Len(Tail(q)) = 0 <=> Len(q) = 1
      BY <1>1, <1>2
    <2> QED BY <1>1, <2>1, <2>2
  <1>7. Range(Tail(q)) \subseteq S
    BY <1>2, <1>3 DEF Range
  <1> QED BY <1>2, <1>4, <1>5, <1>6, <1>7

LEMMA OneCommand ==
  ASSUME NEW cmd \in Commands
  PROVE  /\ <<cmd>> \in Seq(Commands) /\ <<cmd>> # <<>> /\ Len(<<cmd>>) = 1
         /\ Head(<<cmd>>) = cmd /\ Tail(<<cmd>>) = <<>> /\ Range(<<cmd>>) = {cmd}
  BY DEF Range

LEMMA NoCommand == Range(<<>>) = {} /\ Touched({}) = {} /\ Broken({}) = {}
  BY DEF Range, Touched, Broken

\* What the request of each kind has to do.
LEMMA PlannedFacts ==
  ASSUME NEW o \in Orders
  PROVE  /\ Planned(o) \in Seq(Commands) /\ Planned(o) # <<>>
         /\ o.kind = "enable" => o.name \in ScenarioNames /\ Planned(o) = <<Apply(o.name)>>
         /\ o.kind = "disable" =>
               /\ o.name \in ScenarioNames
               /\ o.name \in BaseBacked => Planned(o) = <<Base>>
               /\ o.name \notin BaseBacked => Range(Planned(o)) = {Delete(r) : r \in Breaks(o.name)}
         /\ o.kind = "fix-all" => Range(Planned(o)) = {Base} \cup {Delete(r) : r \in Resources \ BaseBacked}
  <1>1. CASE o.kind = "enable"
    <2>1. o.name \in ScenarioNames
      BY <1>1 DEF Orders
    <2>2. Planned(o) = <<Apply(o.name)>>
      BY <1>1 DEF Planned, Apply
    <2> QED BY <1>1, <2>1, <2>2, CommandFacts, OneCommand
  <1>2. CASE o.kind = "disable"
    <2>1. o.name \in ScenarioNames
      BY <1>2 DEF Orders
    <2>2. Planned(o) = repairScenario(o.name)
      BY <1>2 DEF Planned
    <2>3. CASE o.name \in BaseBacked
      <3>1. Deletes(Extras[o.name]) = <<>>
        BY <2>1, <2>3, DeletesFacts
      <3>2. Planned(o) = <<Base>> \o <<>>
        BY <2>2, <2>3, <3>1 DEF repairScenario, Base
      <3>3. <<Base>> \o <<>> = <<Base>>
        OBVIOUS
      <3> QED BY <1>2, <2>1, <2>3, <3>2, <3>3, CommandFacts, OneCommand
    <2>4. CASE o.name \notin BaseBacked
      BY <1>2, <2>1, <2>2, <2>4, DeletesFacts, BreaksFacts DEF repairScenario
    <2> QED BY <2>3, <2>4
  <1>3. CASE o.kind = "fix-all"
    <2> DEFINE deletes == deleteAllExtraScenarioResources
    <2>1. Planned(o) = <<Base>> \o deletes
      BY <1>3 DEF Planned, Base
    <2>2. deletes \in Seq(Commands) /\ <<Base>> \in Seq(Commands)
      BY DeleteAllFacts, CommandFacts
    <2>3. UNION {Range(Extras[s]) : s \in ScenarioNames} = Resources \ BaseBacked
      <3>1. ASSUME NEW s \in ScenarioNames, NEW r \in Range(Extras[s]) PROVE r \in Resources \ BaseBacked
        <4>1. s \notin BaseBacked
          BY <3>1, ScenarioAssumption, NoCommand
        <4> QED BY <3>1, <4>1, BreaksFacts
      <3>2. ASSUME NEW r \in Resources \ BaseBacked PROVE \E s \in ScenarioNames : r \in Range(Extras[s])
        <4>1. PICK s \in ScenarioNames : r \in Breaks(s)
          BY DEF Resources
        <4> QED BY <4>1, BreaksFacts
      <3> QED BY <3>1, <3>2
    <2> HIDE DEF deletes
    <2>4. /\ <<Base>> \o deletes \in Seq(Commands)
          /\ Range(<<Base>> \o deletes) = Range(<<Base>>) \cup Range(deletes)
          /\ <<Base>> \o deletes # <<>>
      <3>1. <<Base>> \o deletes \in Seq(Commands) /\ Len(<<Base>> \o deletes) = 1 + Len(deletes)
        BY <2>2
      <3>2. Range(<<Base>> \o deletes) = Range(<<Base>>) \cup Range(deletes)
        BY <2>2, RangeConcatenation, Zenon
      <3>3. 1 + Len(deletes) # 0
        BY <2>2
      <3> QED BY <3>1, <3>2, <3>3, EmptySeq
    <2>5. Range(<<Base>>) = {Base}
      BY OneCommand, CommandFacts
    <2> QED BY <1>3, <2>1, <2>3, <2>4, <2>5, DeleteAllFacts DEF deletes
  <1> QED BY <1>1, <1>2, <1>3 DEF Orders


\* What is applied after the base manifest, or after one scenario: the next
\* enabled one in the order of the registry, if there is one.
LEMMA ReapplyFacts ==
  ASSUME NEW o, o.kind = "disable", o.name \in BaseBacked, NEW cmd, NEW done \in 0..Len(Registry),
         \/ cmd = Base /\ done = 0
         \/ done \in DOMAIN Registry /\ cmd = Apply(Registry[done])
  PROVE  \/ /\ reapplyEnabledScenariosExcept(o, cmd) = <<>>
            /\ \A i \in DOMAIN Registry : Registry[i] \in enabled \ {o.name} => i <= done
         \/ \E j \in DOMAIN Registry :
               /\ reapplyEnabledScenariosExcept(o, cmd) = <<Apply(Registry[j])>>
               /\ Registry[j] \in enabled \ {o.name}
               /\ \A i \in DOMAIN Registry : Registry[i] \in enabled \ {o.name} /\ i < j => i <= done
  <1> DEFINE later == {i \in (done + 1)..Len(Registry) : Registry[i] # o.name /\ Registry[i] \in enabled}
             first == CHOOSE i \in later : \A j \in later : i <= j
  <1>1. done = (IF cmd.do = "apply" THEN CHOOSE i \in DOMAIN Registry : Registry[i] = cmd.on ELSE 0)
    <2>1. CASE cmd = Base /\ done = 0
      BY <2>1 DEF Base
    <2>2. CASE done \in DOMAIN Registry /\ cmd = Apply(Registry[done])
      <3>1. \A i \in DOMAIN Registry : Registry[i] = Registry[done] <=> i = done
        BY <2>2, RegistryFacts
      <3>2. cmd.do = "apply" /\ cmd.on = Registry[done]
        BY <2>2 DEF Apply
      <3>3. (CHOOSE i \in DOMAIN Registry : Registry[i] = Registry[done]) = done
        BY <2>2, <3>1
      <3> QED BY <3>2, <3>3
    <2> QED BY <2>1, <2>2
  <1>2. reapplyEnabledScenariosExcept(o, cmd) = IF later # {} THEN <<Apply(Registry[first])>> ELSE <<>>
    BY <1>1 DEF reapplyEnabledScenariosExcept, Apply
  <1>3. \A i \in DOMAIN Registry : i \in later <=> (i > done /\ Registry[i] \in enabled \ {o.name})
    BY RegistryFacts
  <1>4. later \in SUBSET DOMAIN Registry /\ later \in SUBSET Nat
    BY RegistryFacts
  <1> HIDE DEF later
  <1>5. CASE later = {}
    <2>1. \A i \in DOMAIN Registry : Registry[i] \in enabled \ {o.name} => i <= done
      BY <1>3, <1>5, RegistryFacts
    <2> QED BY <1>2, <1>5, <2>1
  <1>6. CASE later # {}
    <2>1. \E i \in later : \A j \in later : i <= j
      BY <1>4, <1>6, LeastNatural
    <2>2. first \in later /\ \A j \in later : first <= j
      BY <2>1
    <2> HIDE DEF first
    <2>3. ASSUME NEW i \in DOMAIN Registry, Registry[i] \in enabled \ {o.name}, i < first PROVE i <= done
      BY <1>3, <1>4, <2>2, <2>3, RegistryFacts
    <2> QED BY <1>2, <1>3, <1>4, <1>6, <2>2, <2>3
  <1> QED BY <1>5, <1>6

-----------------------------------------------------------------------------
(***************************************************************************)
(* A request on its own                                                    *)
(***************************************************************************)
Stages == {"idle", "change", "changed", "failed"}

RequestsTyped ==
    /\ enabled \subseteq ScenarioNames /\ broken \subseteq Resources
    /\ stage \in [Clicks -> Stages]
    /\ order \in [Clicks -> Orders]
    /\ todo \in [Clicks -> Seq(Commands)]
    /\ ran \in [Clicks -> BOOLEAN]
    /\ alone \in [Clicks -> BOOLEAN] /\ orderly \in BOOLEAN
    /\ stray \subseteq Commands
    /\ \A c \in Clicks : IF stage[c] = "change" THEN todo[c] # <<>> ELSE ran[c] = FALSE

\* The calls of a request that have not had their effect.
Ahead(c) == IF ran[c] THEN Range(Tail(todo[c])) ELSE Range(todo[c])

Matches == broken = Broken(enabled)
Others(c) == enabled \ {order[c].name}

Enabling(c) ==
    /\ todo[c] = <<Apply(order[c].name)>>
    /\ broken = IF ran[c] THEN Broken(enabled) \cup Breaks(order[c].name) ELSE Broken(enabled)

Deleting(c) ==
    /\ \A cmd \in Range(todo[c]) : \E r \in Breaks(order[c].name) : cmd = Delete(r)
    /\ broken \subseteq Broken(enabled)
    /\ Broken(Others(c)) \subseteq broken
    /\ broken \cap Breaks(order[c].name) \subseteq Touched(Ahead(c))

\* The others that are enabled show again, up to a place in the registry; what
\* the base manifest does not repair has shown all the time.
Restored(c, place) ==
    /\ broken \subseteq Broken(Others(c))
    /\ \A i \in DOMAIN Registry :
          Registry[i] \in Others(c) /\ (Registry[i] \notin BaseBacked \/ i <= place) =>
              Breaks(Registry[i]) \subseteq broken

Rebasing(c) ==
    /\ todo[c] = <<Base>>
    /\ IF ran[c] THEN Restored(c, 0) ELSE Matches

Reapplying(c) ==
    \E j \in DOMAIN Registry :
        /\ todo[c] = <<Apply(Registry[j])>>
        /\ Registry[j] \in Others(c)
        /\ Restored(c, IF ran[c] THEN j ELSE j - 1)

Healing(c) ==
    /\ \A cmd \in Range(todo[c]) : cmd.do # "apply"
    /\ broken \subseteq Touched(Ahead(c))

OnCourse(c) ==
    /\ order[c].kind = "enable" => Enabling(c)
    /\ order[c].kind = "disable" => IF order[c].name \in BaseBacked THEN Rebasing(c) \/ Reapplying(c)
                                                                    ELSE Deleting(c)
    /\ order[c].kind = "fix-all" => Healing(c)

LEMMA OrderFacts ==
  ASSUME NEW o \in Orders
  PROVE  /\ o.kind \in {"enable", "disable", "fix-all"}
         /\ o.kind # "fix-all" => o.name \in ScenarioNames
  BY DEF Orders

LEMMA RequestOnCourse ==
  ASSUME RequestsTyped, NEW c \in Clicks, NEW o \in Orders, Request(c, o),
         o.kind = "fix-all" \/ Matches
  PROVE  OnCourse(c)'
  <1>1. /\ order'[c] = o /\ todo'[c] = Planned(o) /\ ran'[c] = FALSE
        /\ enabled' = enabled /\ broken' = broken
    BY DEF RequestsTyped, Request
  <1>2. CASE o.kind = "enable"
    BY <1>1, <1>2, PlannedFacts DEF OnCourse, Enabling, Matches
  <1>3. CASE o.kind = "disable" /\ o.name \in BaseBacked
    BY <1>1, <1>3, PlannedFacts DEF OnCourse, Rebasing, Matches
  <1>4. CASE o.kind = "disable" /\ o.name \notin BaseBacked
    <2>1. Range(todo'[c]) = {Delete(r) : r \in Breaks(o.name)}
      BY <1>1, <1>4, PlannedFacts
    <2>2. Touched({Delete(r) : r \in Breaks(o.name)}) = Breaks(o.name)
      BY CommandFacts DEF Touched
    <2>3. broken = Broken(enabled) /\ Broken(enabled \ {o.name}) \subseteq broken
      BY <1>4 DEF Matches, Broken
    <2>4. Deleting(c)'
      BY <1>1, <2>1, <2>2, <2>3 DEF Deleting, Ahead, Others
    <2> QED BY <1>1, <1>4, <2>4 DEF OnCourse
  <1>5. CASE o.kind = "fix-all"
    <2>1. Range(todo'[c]) = {Base} \cup {Delete(r) : r \in Resources \ BaseBacked}
      BY <1>1, <1>5, PlannedFacts
    <2>2. Touched({Base} \cup {Delete(r) : r \in Resources \ BaseBacked}) = BaseBacked \cup (Resources \ BaseBacked)
      BY CommandFacts DEF Touched
    <2>3. \A cmd \in Range(todo'[c]) : cmd.do # "apply"
      BY <2>1 DEF Base, Delete
    <2>4. broken \subseteq Touched(Range(todo'[c]))
      BY <2>1, <2>2 DEF RequestsTyped
    <2>5. Healing(c)'
      BY <1>1, <2>3, <2>4 DEF Healing, Ahead, Touched, Targets
    <2> QED BY <1>1, <1>5, <2>5 DEF OnCourse
  <1> QED BY <1>2, <1>3, <1>4, <1>5, OrderFacts

\* Of the resources of other scenarios a deletion touches none.
LEMMA OthersApart ==
  ASSUME NEW E \in SUBSET ScenarioNames, NEW s \in ScenarioNames
  PROVE  /\ Broken(E \ {s}) \cap Breaks(s) = {}
         /\ Broken(E) \ Breaks(s) \subseteq Broken(E \ {s})
         /\ Broken(E \cup {s}) = Broken(E) \cup Breaks(s)
  BY BreaksFacts DEF Broken

LEMMA EffectOnCourse ==
  ASSUME RequestsTyped, NEW c \in Clicks, OnCourse(c), Effect(c)
  PROVE  OnCourse(c)'
  <1> DEFINE cmd == Head(todo[c])
             name == order[c].name
  <1>1. /\ stage[c] = "change" /\ ran[c] = FALSE /\ ran'[c] = TRUE
        /\ broken' = After(cmd, Targets(cmd))
        /\ UNCHANGED <<enabled, order, todo>>
        /\ todo[c] \in Seq(Commands) /\ todo[c] # <<>>
    BY DEF RequestsTyped, Effect
  <1>2. /\ cmd \in Commands
        /\ Range(todo[c]) = {cmd} \cup Range(Tail(todo[c]))
    BY <1>1, SequenceFacts
  <1>3. order[c] \in Orders
    BY DEF RequestsTyped
  <1>4. CASE order[c].kind = "enable"
    <2>1. Enabling(c)
      BY <1>4 DEF OnCourse
    <2>2. cmd = Apply(name)
      BY <2>1 DEF Enabling
    <2>3. broken' = broken \cup Breaks(name)
      BY <1>1, <2>2, CommandFacts DEF After, Apply
    <2>4. Enabling(c)'
      BY <1>1, <2>1, <2>3 DEF Enabling
    <2> QED BY <1>1, <1>4, <2>4 DEF OnCourse
  <1>5. CASE order[c].kind = "disable" /\ name \notin BaseBacked
    <2>1. Deleting(c)
      BY <1>5 DEF OnCourse
    <2>2. PICK r \in Breaks(name) : cmd = Delete(r)
      BY <1>2, <2>1 DEF Deleting
    <2>3. broken' = broken \ {r}
      BY <1>1, <2>2, CommandFacts DEF After, Delete
    <2>4. r \notin Broken(Others(c))
      <3>1. name \in ScenarioNames /\ enabled \in SUBSET ScenarioNames
        BY <1>3, <1>5, OrderFacts DEF RequestsTyped
      <3> QED BY <2>2, <3>1, OthersApart DEF Others
    <2>5. broken' \cap Breaks(name) \subseteq Touched(Range(Tail(todo[c])))
      <3>1. Touched(Range(todo[c])) = {r} \cup Touched(Range(Tail(todo[c])))
        BY <1>2, <2>2, CommandFacts DEF Touched
      <3>2. broken \cap Breaks(name) \subseteq Touched(Range(todo[c]))
        BY <1>1, <2>1 DEF Deleting, Ahead
      <3> QED BY <2>3, <3>1, <3>2
    <2>6. Deleting(c)'
      BY <1>1, <2>1, <2>3, <2>4, <2>5 DEF Deleting, Ahead, Others
    <2> QED BY <1>1, <1>5, <2>6 DEF OnCourse
  <1>6. CASE order[c].kind = "disable" /\ name \in BaseBacked /\ Rebasing(c)
    <2>1. cmd = Base /\ broken = Broken(enabled)
      BY <1>1, <1>6 DEF Rebasing, Matches
    <2>2. broken' = broken \ BaseBacked
      BY <1>1, <2>1, CommandFacts DEF After, Base
    <2>3. Breaks(name) \subseteq BaseBacked /\ name \in ScenarioNames
      BY <1>6, BreaksFacts
    <2>4. broken' \subseteq Broken(Others(c))
      BY <2>1, <2>2, <2>3, OthersApart DEF Others, RequestsTyped
    <2>5. ASSUME NEW i \in DOMAIN Registry, Registry[i] \in Others(c), Registry[i] \notin BaseBacked
          PROVE  Breaks(Registry[i]) \subseteq broken'
      <3>1. Breaks(Registry[i]) \subseteq broken
        BY <2>1, <2>5 DEF Broken, Others
      <3>2. Breaks(Registry[i]) \cap BaseBacked = {}
        BY <2>5, RegistryFacts, BreaksFacts
      <3> QED BY <2>2, <3>1, <3>2
    <2>6. Restored(c, 0)'
      <3>1. \A i \in DOMAIN Registry : ~ i <= 0
        BY RegistryFacts
      <3>2. Others(c)' = Others(c)
        BY <1>1 DEF Others
      <3> QED BY <2>4, <2>5, <3>1, <3>2 DEF Restored
    <2>7. Rebasing(c)'
      BY <1>1, <1>6, <2>6 DEF Rebasing
    <2> QED BY <1>1, <1>6, <2>7 DEF OnCourse
  <1>7. CASE order[c].kind = "disable" /\ name \in BaseBacked /\ Reapplying(c)
    <2>1. PICK j \in DOMAIN Registry :
             /\ todo[c] = <<Apply(Registry[j])>>
             /\ Registry[j] \in Others(c)
             /\ Restored(c, j - 1)
      BY <1>1, <1>7 DEF Reapplying
    <2>2. broken' = broken \cup Breaks(Registry[j])
      BY <1>1, <2>1, CommandFacts DEF After, Apply
    <2>3. broken' \subseteq Broken(Others(c))
      BY <2>1, <2>2 DEF Restored, Broken
    <2>4. ASSUME NEW i \in DOMAIN Registry, Registry[i] \in Others(c),
                 Registry[i] \notin BaseBacked \/ i <= j
          PROVE  Breaks(Registry[i]) \subseteq broken'
      <3>1. CASE i = j
        BY <2>2, <3>1
      <3>2. CASE i # j
        <4>1. Registry[i] \notin BaseBacked \/ i <= j - 1
          BY <2>4, <3>2, RegistryFacts
        <4> QED BY <2>1, <2>2, <2>4, <4>1 DEF Restored
      <3> QED BY <3>1, <3>2
    <2>5. Restored(c, j)'
      BY <1>1, <2>3, <2>4 DEF Restored, Others
    <2>6. Reapplying(c)'
      BY <1>1, <2>1, <2>5 DEF Reapplying, Others
    <2> QED BY <1>1, <1>7, <2>6 DEF OnCourse
  <1>8. CASE order[c].kind = "fix-all"
    <2>1. Healing(c)
      BY <1>8 DEF OnCourse
    <2>2. broken' = broken \ Targets(cmd)
      BY <1>1, <1>2, <2>1 DEF After, Healing
    <2>3. Touched(Range(todo[c])) = Targets(cmd) \cup Touched(Range(Tail(todo[c])))
      BY <1>2 DEF Touched
    <2>4. Healing(c)'
      BY <1>1, <2>1, <2>2, <2>3 DEF Healing, Ahead
    <2> QED BY <1>1, <1>8, <2>4 DEF OnCourse
  <1> QED BY <1>3, <1>4, <1>5, <1>6, <1>7, <1>8, OrderFacts DEF OnCourse

\* The last call of a request has ended, and it is answered.
LEMMA EndsOnCourse ==
  ASSUME RequestsTyped, NEW c \in Clicks, OnCourse(c), Ends(c)
  PROVE  \/ stage' = stage /\ OnCourse(c)'
         \/ /\ stage'[c] = "changed" /\ Matches'
            /\ order[c].kind = "fix-all" => broken' = {} /\ enabled' = {}
  <1> DEFINE cmd == Head(todo[c])
             name == order[c].name
             rest == Tail(todo[c])
             again == reapplyEnabledScenariosExcept(order[c], cmd)
  <1>1. /\ stage[c] = "change" /\ ran[c] = TRUE /\ ran'[c] = FALSE
        /\ UNCHANGED <<broken, order>>
        /\ todo[c] \in Seq(Commands) /\ todo[c] # <<>>
    BY DEF RequestsTyped, Ends
  <1>2. /\ todo'[c] = IF Len(todo[c]) > 1 THEN rest ELSE again
        /\ IF todo'[c] = <<>> THEN enabled' = EnabledAfter(order[c]) /\ stage' = [stage EXCEPT ![c] = "changed"]
                              ELSE UNCHANGED <<enabled, stage>>
    BY DEF RequestsTyped, Ends
  <1>3. /\ cmd \in Commands /\ rest \in Seq(Commands)
        /\ Range(todo[c]) = {cmd} \cup Range(rest)
        /\ Len(todo[c]) > 1 <=> rest # <<>>
    BY <1>1, SequenceFacts
  <1>4. order[c] \in Orders /\ enabled \in SUBSET ScenarioNames
    BY DEF RequestsTyped
  <1>5. ASSUME ~ (order[c].kind = "disable" /\ name \in BaseBacked) PROVE todo'[c] = rest
    <2>1. again = <<>>
      BY <1>5 DEF reapplyEnabledScenariosExcept
    <2> QED BY <1>2, <1>3, <2>1
  <1>6. todo'[c] = <<>> => stage'[c] = "changed"
    BY <1>2 DEF RequestsTyped
  <1>7. CASE order[c].kind = "enable"
    <2>1. Enabling(c)
      BY <1>7 DEF OnCourse
    <2>2. rest = <<>> /\ broken = Broken(enabled) \cup Breaks(name)
      BY <1>1, <2>1 DEF Enabling
    <2>3. enabled' = enabled \cup {name} /\ name \in ScenarioNames
      BY <1>2, <1>4, <1>5, <1>7, <2>2, OrderFacts DEF EnabledAfter
    <2>4. Matches'
      BY <1>1, <1>4, <2>2, <2>3, OthersApart DEF Matches
    <2> QED BY <1>5, <1>6, <1>7, <2>2, <2>4
  <1>8. CASE order[c].kind = "disable" /\ name \notin BaseBacked
    <2>1. Deleting(c)
      BY <1>8 DEF OnCourse
    <2>2. todo'[c] = rest
      BY <1>5, <1>8
    <2>3. CASE rest = <<>>
      <3>1. enabled' = enabled \ {name} /\ name \in ScenarioNames
        BY <1>2, <1>4, <1>8, <2>2, <2>3, OrderFacts DEF EnabledAfter
      <3>2. broken \cap Breaks(name) = {}
        BY <1>1, <2>1, <2>3, NoCommand DEF Deleting, Ahead
      <3>3. broken = Broken(enabled \ {name})
        BY <1>4, <2>1, <3>1, <3>2, OthersApart DEF Deleting, Others
      <3> QED BY <1>1, <1>6, <1>8, <2>2, <2>3, <3>1, <3>3 DEF Matches
    <2>4. CASE rest # <<>>
      <3>1. UNCHANGED <<enabled, stage>>
        BY <1>2, <2>2, <2>4
      <3>2. Deleting(c)'
        BY <1>1, <1>3, <2>1, <2>2, <3>1 DEF Deleting, Ahead, Others, Broken, Touched, Breaks, Targets, Delete
      <3> QED BY <1>1, <1>8, <3>1, <3>2 DEF OnCourse
    <2> QED BY <2>3, <2>4
  <1>9. CASE order[c].kind = "disable" /\ name \in BaseBacked
    <2>1. PICK done \in 0..Len(Registry) :
             /\ Restored(c, done)
             /\ todo[c] = <<cmd>>
             /\ \/ cmd = Base /\ done = 0
                \/ done \in DOMAIN Registry /\ cmd = Apply(Registry[done])
      <3>1. CASE Rebasing(c)
        <4>1. todo[c] = <<Base>> /\ Restored(c, 0) /\ cmd = Base
          BY <1>1, <3>1 DEF Rebasing
        <4> QED BY <4>1, RegistryFacts
      <3>2. CASE Reapplying(c)
        <4>1. PICK j \in DOMAIN Registry : todo[c] = <<Apply(Registry[j])>> /\ Restored(c, j)
          BY <1>1, <3>2 DEF Reapplying
        <4>2. cmd = Apply(Registry[j]) /\ j \in 0..Len(Registry)
          BY <4>1, RegistryFacts
        <4> QED BY <4>1, <4>2
      <3> QED BY <1>9, <3>1, <3>2 DEF OnCourse
    <2>2. todo'[c] = again
      <3>1. rest = <<>>
        BY <1>3, <2>1, OneCommand
      <3> QED BY <1>2, <1>3, <3>1
    <2>3. \/ /\ again = <<>>
             /\ \A i \in DOMAIN Registry : Registry[i] \in Others(c) => i <= done
          \/ \E j \in DOMAIN Registry :
                /\ again = <<Apply(Registry[j])>>
                /\ Registry[j] \in Others(c)
                /\ \A i \in DOMAIN Registry : Registry[i] \in Others(c) /\ i < j => i <= done
      BY <1>9, <2>1, ReapplyFacts DEF Others
    <2> HIDE DEF again
    <2>4. CASE again = <<>> /\ \A i \in DOMAIN Registry : Registry[i] \in Others(c) => i <= done
      <3>1. enabled' = enabled \ {name}
        BY <1>2, <1>9, <2>2, <2>4 DEF EnabledAfter
      <3>2. \A s \in Others(c) : Breaks(s) \subseteq broken
        <4>1. ASSUME NEW s \in Others(c) PROVE Breaks(s) \subseteq broken
          <5>1. PICK i \in DOMAIN Registry : Registry[i] = s
            BY <1>4, RegistryFacts DEF Others
          <5> QED BY <2>1, <2>4, <5>1 DEF Restored
        <4> QED BY <4>1
      <3>3. broken = Broken(Others(c))
        BY <2>1, <3>2 DEF Restored, Broken
      <3> QED BY <1>1, <1>6, <1>9, <2>2, <2>4, <3>1, <3>3 DEF Matches, Others
    <2>5. CASE \E j \in DOMAIN Registry :
                /\ again = <<Apply(Registry[j])>>
                /\ Registry[j] \in Others(c)
                /\ \A i \in DOMAIN Registry : Registry[i] \in Others(c) /\ i < j => i <= done
      <3>1. PICK j \in DOMAIN Registry :
                /\ again = <<Apply(Registry[j])>>
                /\ Registry[j] \in Others(c)
                /\ \A i \in DOMAIN Registry : Registry[i] \in Others(c) /\ i < j => i <= done
        BY <2>5
      <3>2. UNCHANGED <<enabled, stage>>
        <4>1. again # <<>>
          BY <3>1
        <4> QED BY <1>2, <2>2, <4>1
      <3>3. \A i \in DOMAIN Registry : i <= j - 1 => i < j
        BY RegistryFacts
      <3>4. Restored(c, j - 1)
        BY <2>1, <3>1, <3>3 DEF Restored
      <3>5. Others(c)' = Others(c)
        BY <1>1, <3>2 DEF Others
      <3>6. Restored(c, j - 1)'
        BY <1>1, <3>4, <3>5 DEF Restored, Broken, Breaks
      <3>7. Reapplying(c)'
        BY <1>1, <2>2, <3>1, <3>5, <3>6 DEF Reapplying
      <3> QED BY <1>1, <1>9, <3>2, <3>7 DEF OnCourse
    <2> QED BY <2>3, <2>4, <2>5
  <1>10. CASE order[c].kind = "fix-all"
    <2>1. Healing(c)
      BY <1>10 DEF OnCourse
    <2>2. todo'[c] = rest
      BY <1>5, <1>10
    <2>3. CASE rest = <<>>
      <3>1. enabled' = {}
        BY <1>2, <1>10, <2>2, <2>3 DEF EnabledAfter
      <3>2. broken = {}
        BY <1>1, <2>1, <2>3, NoCommand DEF Healing, Ahead
      <3>3. Matches'
        BY <1>1, <3>1, <3>2, NoCommand DEF Matches
      <3> QED BY <1>1, <1>6, <2>2, <2>3, <3>1, <3>2, <3>3
    <2>4. CASE rest # <<>>
      <3>1. UNCHANGED <<enabled, stage>>
        BY <1>2, <2>2, <2>4
      <3>2. Healing(c)'
        BY <1>1, <1>3, <2>1, <2>2 DEF Healing, Ahead, Touched, Targets, Breaks
      <3> QED BY <1>1, <1>10, <3>1, <3>2 DEF OnCourse
    <2> QED BY <2>3, <2>4
  <1> QED BY <1>4, <1>7, <1>8, <1>9, <1>10, OrderFacts

-----------------------------------------------------------------------------
(***************************************************************************)
(* Requests among others                                                   *)
(***************************************************************************)
\* The only request the cluster and the set feel.
Sole(c) == Changing = {c} /\ stray = {} /\ OnCourse(c)

OrderlyFits ==
    orderly => /\ stray = {}
               /\ (Changing = {} /\ Matches) \/ \E c \in Clicks : Sole(c)

HealerFits ==
    \A c \in Clicks :
        alone[c] /\ order[c].kind = "fix-all" =>
            /\ stage[c] = "change" => Sole(c)
            /\ stage[c] = "changed" => Changing = {} /\ stray = {} /\ broken = {} /\ enabled = {}

ScenarioInv == RequestsTyped /\ OrderlyFits /\ HealerFits

LEMMA FixAllIsOrder == [kind |-> "fix-all"] \in Orders
  BY DEF Orders

LEMMA InitScenarioInv == ScenarioInit => ScenarioInv
  <1> SUFFICES ASSUME ScenarioInit PROVE ScenarioInv
    OBVIOUS
  <1>1. RequestsTyped
    <2>1. <<>> \in Seq(Commands)
      OBVIOUS
    <2> QED BY <2>1, FixAllIsOrder DEF ScenarioInit, RequestsTyped, Stages
  <1>2. Changing = {} /\ Matches /\ stray = {}
    BY NoCommand DEF ScenarioInit, Changing, Matches
  <1>3. \A c \in Clicks : alone[c] = FALSE
    BY DEF ScenarioInit
  <1> QED BY <1>1, <1>2, <1>3 DEF ScenarioInv, OrderlyFits, HealerFits

LEMMA OnCourseSame ==
  ASSUME NEW c, OnCourse(c), UNCHANGED <<enabled, broken>>,
         order'[c] = order[c], todo'[c] = todo[c], ran'[c] = ran[c]
  PROVE  OnCourse(c)'
  <1>1. Others(c)' = Others(c) /\ Ahead(c)' = Ahead(c)
    BY DEF Others, Ahead
  <1>2. Enabling(c) => Enabling(c)'
    BY DEF Enabling, Broken, Breaks
  <1>3. Deleting(c) => Deleting(c)'
    BY <1>1 DEF Deleting, Broken, Touched, Breaks, Targets
  <1>4. \A i : Restored(c, i) => Restored(c, i)'
    BY <1>1 DEF Restored, Broken, Breaks
  <1>5. Rebasing(c) => Rebasing(c)'
    BY <1>4 DEF Rebasing, Matches, Broken, Breaks
  <1>6. Reapplying(c) => Reapplying(c)'
    BY <1>1, <1>4 DEF Reapplying
  <1>7. Healing(c) => Healing(c)'
    BY <1>1 DEF Healing, Touched, Targets, Breaks
  <1> QED BY <1>2, <1>3, <1>5, <1>6, <1>7 DEF OnCourse

LEMMA RequestKeeps ==
  ASSUME ScenarioInv, NEW c \in Clicks, NEW o \in Orders, Request(c, o)
  PROVE  ScenarioInv'
  <1>1. RequestsTyped'
    <2>1. Planned(o) \in Seq(Commands) /\ Planned(o) # <<>>
      BY PlannedFacts
    <2>2. alone' \in [Clicks -> BOOLEAN] /\ orderly' \in BOOLEAN
      BY DEF Request
    <2> QED BY <2>1, <2>2 DEF ScenarioInv, RequestsTyped, Request, Stages
  <1>2. ASSUME Changing = {}, stray = {}, o.kind = "fix-all" \/ Matches PROVE Sole(c)'
    <2>1. OnCourse(c)'
      BY <1>2, RequestOnCourse DEF ScenarioInv
    <2>2. \A d \in Clicks : stage'[d] = "change" <=> d = c
      BY <1>2 DEF ScenarioInv, RequestsTyped, Request, Changing
    <2>3. Changing' = {c}
      BY <2>2 DEF Changing
    <2> QED BY <1>2, <2>1, <2>3 DEF Sole, Request
  <1>3. OrderlyFits'
    <2>1. SUFFICES ASSUME orderly' PROVE stray' = {} /\ Sole(c)'
      BY DEF OrderlyFits
    <2>2. orderly /\ Changing = {}
      BY <2>1 DEF Request
    <2>3. stray = {} /\ Matches
      BY <2>2 DEF ScenarioInv, OrderlyFits, Sole
    <2> QED BY <1>2, <2>2, <2>3 DEF Request
  <1>4. HealerFits'
    <2>1. SUFFICES ASSUME NEW d \in Clicks, alone'[d], order'[d].kind = "fix-all"
                   PROVE  stage'[d] = "change" /\ Sole(d)'
      BY DEF HealerFits
    <2>2. d = c /\ Changing = {} /\ stray = {}
      BY <2>1 DEF Request
    <2>3. order'[c] = o /\ stage'[c] = "change"
      BY DEF ScenarioInv, RequestsTyped, Request
    <2> QED BY <1>2, <2>1, <2>2, <2>3
  <1> QED BY <1>1, <1>3, <1>4 DEF ScenarioInv

LEMMA EffectKeeps ==
  ASSUME ScenarioInv, NEW c \in Clicks, Effect(c)
  PROVE  ScenarioInv'
  <1>1. todo[c] \in Seq(Commands) /\ todo[c] # <<>> /\ stage[c] = "change"
    BY DEF ScenarioInv, RequestsTyped, Effect
  <1>2. Targets(Head(todo[c])) \subseteq Resources
    BY <1>1, SequenceFacts, CommandFacts
  <1>3. broken' \subseteq Resources
    BY <1>2 DEF ScenarioInv, RequestsTyped, Effect, After
  <1>4. RequestsTyped'
    BY <1>1, <1>3 DEF ScenarioInv, RequestsTyped, Effect
  <1>5. c \in Changing /\ Changing' = Changing
    BY <1>1 DEF Changing, Effect
  <1>6. Sole(c) => Sole(c)'
    BY <1>5, EffectOnCourse DEF ScenarioInv, Sole, Effect
  <1>7. OrderlyFits'
    BY <1>5, <1>6 DEF ScenarioInv, OrderlyFits, Sole, Effect
  <1>8. HealerFits'
    BY <1>5, <1>6 DEF ScenarioInv, HealerFits, Sole, Effect
  <1> QED BY <1>4, <1>7, <1>8 DEF ScenarioInv

LEMMA EndsKeeps ==
  ASSUME ScenarioInv, NEW c \in Clicks, Ends(c)
  PROVE  ScenarioInv'
  <1> DEFINE again == reapplyEnabledScenariosExcept(order[c], Head(todo[c]))
             next == IF Len(todo[c]) > 1 THEN Tail(todo[c]) ELSE again
  <1>1. /\ todo[c] \in Seq(Commands) /\ todo[c] # <<>> /\ stage[c] = "change" /\ order[c] \in Orders
        /\ todo' = [todo EXCEPT ![c] = next]
        /\ IF next = <<>> THEN enabled' = EnabledAfter(order[c]) /\ stage' = [stage EXCEPT ![c] = "changed"]
                          ELSE UNCHANGED <<enabled, stage>>
    BY DEF ScenarioInv, RequestsTyped, Ends
  <1>2. again \in Seq(Commands)
    <2>1. CASE again = <<>>
      <3>1. <<>> \in Seq(Commands)
        OBVIOUS
      <3> HIDE DEF again
      <3> QED BY <2>1, <3>1
    <2>2. CASE again # <<>>
      <3> DEFINE cmd == Head(todo[c])
                 done == IF cmd.do = "apply" THEN CHOOSE i \in DOMAIN Registry : Registry[i] = cmd.on ELSE 0
                 later == {i \in (done + 1)..Len(Registry) :
                             Registry[i] # order[c].name /\ Registry[i] \in enabled}
                 first == CHOOSE i \in later : \A j \in later : i <= j
      <3>1. order[c].kind = "disable" /\ later # {} /\ again = <<Apply(Registry[first])>>
        BY <2>2 DEF reapplyEnabledScenariosExcept, Apply
      <3>2. done \in Nat
        <4>1. CASE cmd.do = "apply"
          <5>1. cmd \in Commands
            BY <1>1, SequenceFacts
          <5>2. cmd.on \in ScenarioNames
            BY <4>1, <5>1 DEF Commands
          <5>3. \E i \in DOMAIN Registry : Registry[i] = cmd.on
            BY <5>2, RegistryFacts
          <5>4. done \in DOMAIN Registry
            BY <4>1, <5>3
          <5> QED BY <5>4, RegistryFacts
        <4>2. CASE cmd.do # "apply"
          BY <4>2
        <4> QED BY <4>1, <4>2
      <3> HIDE DEF done
      <3>3. later \in SUBSET DOMAIN Registry /\ later \in SUBSET Nat
        BY <3>2, RegistryFacts
      <3> HIDE DEF later
      <3>4. first \in later
        <4>1. \E i \in later : \A j \in later : i <= j
          BY <3>1, <3>3, LeastNatural
        <4> QED BY <4>1
      <3> QED BY <3>1, <3>3, <3>4, RegistryFacts, CommandFacts, OneCommand
    <2> QED BY <2>1, <2>2
  <1>3. next \in Seq(Commands)
    BY <1>1, <1>2, SequenceFacts
  <1>4. EnabledAfter(order[c]) \subseteq ScenarioNames
    BY <1>1, OrderFacts DEF EnabledAfter, ScenarioInv, RequestsTyped
  <1> HIDE DEF next
  <1>5. RequestsTyped'
    <2>1. CASE next = <<>>
      BY <1>1, <1>3, <1>4, <2>1 DEF ScenarioInv, RequestsTyped, Ends, Stages
    <2>2. CASE next # <<>>
      BY <1>1, <1>3, <2>2 DEF ScenarioInv, RequestsTyped, Ends
    <2> QED BY <2>1, <2>2
  <1>6. c \in Changing
    BY <1>1 DEF Changing
  <1>7. ASSUME Sole(c)
        PROVE  \/ stage' = stage /\ Sole(c)'
               \/ /\ stage'[c] = "changed" /\ Changing' = {} /\ stray' = {} /\ Matches'
                  /\ order[c].kind = "fix-all" => broken' = {} /\ enabled' = {}
    <2>1. CASE stage' = stage /\ OnCourse(c)'
      BY <1>7, <2>1 DEF Sole, Changing, Ends
    <2>2. CASE /\ stage'[c] = "changed" /\ Matches'
               /\ order[c].kind = "fix-all" => broken' = {} /\ enabled' = {}
      <3>1. \A d \in Clicks : stage'[d] # "change"
        BY <1>1, <1>7, <2>2 DEF Sole, Changing, ScenarioInv, RequestsTyped
      <3> QED BY <1>7, <2>2, <3>1 DEF Sole, Changing, Ends
    <2> QED BY <1>7, <2>1, <2>2, EndsOnCourse DEF Sole, ScenarioInv
  <1>8. OrderlyFits'
    BY <1>6, <1>7 DEF ScenarioInv, OrderlyFits, Sole, Ends
  <1>9. HealerFits'
    <2>1. SUFFICES ASSUME NEW d \in Clicks, alone[d], order[d].kind = "fix-all"
                   PROVE  /\ stage'[d] = "change" => Sole(d)'
                          /\ stage'[d] = "changed" => Changing' = {} /\ stray' = {} /\ broken' = {} /\ enabled' = {}
      BY DEF HealerFits, Ends
    <2>2. CASE stage[d] = "change"
      <3>1. Sole(d) /\ d = c
        BY <1>6, <2>1, <2>2 DEF ScenarioInv, HealerFits, Sole
      <3> QED BY <1>7, <2>1, <2>2, <3>1
    <2>3. CASE stage[d] # "change"
      <3>1. stage[d] # "changed"
        BY <1>6, <2>1 DEF ScenarioInv, HealerFits
      <3>2. stage'[d] = stage[d]
        BY <1>1, <2>3 DEF ScenarioInv, RequestsTyped
      <3> QED BY <2>3, <3>1, <3>2
    <2> QED BY <2>2, <2>3
  <1> QED BY <1>5, <1>8, <1>9 DEF ScenarioInv

LEMMA FailsKeeps ==
  ASSUME ScenarioInv, NEW c \in Clicks, Fails(c)
  PROVE  ScenarioInv'
  <1>1. todo[c] \in Seq(Commands) /\ todo[c] # <<>> /\ stage[c] = "change" /\ c \in Changing
    BY DEF ScenarioInv, RequestsTyped, Fails, Changing
  <1>2. Targets(Head(todo[c])) \subseteq Resources
    BY <1>1, SequenceFacts, CommandFacts
  <1>3. broken' \subseteq Resources
    BY <1>2 DEF ScenarioInv, RequestsTyped, Fails, After
  <1>4. <<>> \in Seq(Commands)
    OBVIOUS
  <1>5. RequestsTyped'
    BY <1>1, <1>3, <1>4 DEF ScenarioInv, RequestsTyped, Fails, Stages
  <1>6. HealerFits'
    <2>1. SUFFICES ASSUME NEW d \in Clicks, alone'[d], order'[d].kind = "fix-all"
                   PROVE  stage'[d] \notin {"change", "changed"}
      BY DEF HealerFits
    <2>2. d # c /\ alone[d] /\ order[d].kind = "fix-all" /\ stage'[d] = stage[d]
      BY <2>1 DEF Fails, ScenarioInv, RequestsTyped
    <2> QED BY <1>1, <2>2 DEF ScenarioInv, HealerFits, Sole
  <1> QED BY <1>5, <1>6 DEF ScenarioInv, OrderlyFits, Fails

LEMMA RestartKeeps == ASSUME ScenarioInv, Restart PROVE ScenarioInv'
  <1>1. stray' \subseteq Commands
    <2>1. ASSUME NEW c \in Changing PROVE Head(todo[c]) \in Commands
      BY <2>1, SequenceFacts DEF Changing, ScenarioInv, RequestsTyped
    <2> QED BY <2>1 DEF Restart, ScenarioInv, RequestsTyped
  <1>2. <<>> \in Seq(Commands)
    OBVIOUS
  <1>3. RequestsTyped'
    BY <1>1, <1>2 DEF ScenarioInv, RequestsTyped, Restart, Stages
  <1> QED BY <1>3 DEF ScenarioInv, OrderlyFits, HealerFits, Restart

LEMMA StrayEffectKeeps == ASSUME ScenarioInv, StrayEffect PROVE ScenarioInv'
  <1>1. PICK cmd \in stray : broken' = After(cmd, Targets(cmd)) /\ stray' = stray \ {cmd}
    BY DEF StrayEffect
  <1>2. broken' \subseteq Resources
    BY <1>1, CommandFacts DEF ScenarioInv, RequestsTyped, After
  <1>3. RequestsTyped'
    BY <1>1, <1>2 DEF ScenarioInv, RequestsTyped, StrayEffect
  <1>4. stray # {}
    BY <1>1
  <1> QED BY <1>3, <1>4 DEF ScenarioInv, OrderlyFits, HealerFits, Sole, StrayEffect

LEMMA HandlerEndsKeeps ==
  ASSUME ScenarioInv, NEW c \in Clicks, HandlerEnds(c)
  PROVE  ScenarioInv'
  <1>1. RequestsTyped'
    BY FixAllIsOrder DEF ScenarioInv, RequestsTyped, HandlerEnds, backend, Stages
  <1>2. Changing' = Changing /\ stray' = stray /\ (Matches => Matches')
    BY DEF ScenarioInv, RequestsTyped, HandlerEnds, backend, Changing, Matches, Broken, Breaks
  <1>3. ASSUME NEW d \in Clicks, Sole(d) PROVE Sole(d)'
    <2>1. d # c
      BY <1>3 DEF Sole, Changing, HandlerEnds
    <2>2. OnCourse(d)'
      BY <1>3, <2>1, OnCourseSame DEF Sole, HandlerEnds, backend, ScenarioInv, RequestsTyped
    <2> QED BY <1>2, <1>3, <2>2 DEF Sole
  <1>4. OrderlyFits'
    BY <1>2, <1>3 DEF ScenarioInv, OrderlyFits, HandlerEnds
  <1>5. HealerFits'
    <2>1. SUFFICES ASSUME NEW d \in Clicks, d # c, alone[d], order[d].kind = "fix-all"
                   PROVE  /\ stage[d] = "change" => Sole(d)'
                          /\ stage[d] = "changed" => Changing' = {} /\ stray' = {} /\ broken' = {} /\ enabled' = {}
      BY DEF HealerFits, HandlerEnds, ScenarioInv, RequestsTyped
    <2> QED BY <1>2, <1>3, <2>1 DEF ScenarioInv, HealerFits, HandlerEnds, backend
  <1> QED BY <1>1, <1>4, <1>5 DEF ScenarioInv

\* The page shows another list.
LEMMA ShowKeeps ==
  ASSUME ScenarioInv, UNCHANGED <<backend, stage, order, alone, orderly>>
  PROVE  ScenarioInv'
  <1>1. RequestsTyped'
    BY DEF ScenarioInv, RequestsTyped, backend
  <1>2. Changing' = Changing /\ stray' = stray /\ (Matches => Matches')
    BY DEF backend, Changing, Matches, Broken, Breaks
  <1>3. ASSUME NEW d \in Clicks, Sole(d) PROVE Sole(d)'
    <2>1. OnCourse(d)'
      BY <1>3, OnCourseSame DEF Sole, backend
    <2> QED BY <1>2, <1>3, <2>1 DEF Sole
  <1>4. OrderlyFits'
    BY <1>2, <1>3 DEF ScenarioInv, OrderlyFits
  <1>5. HealerFits'
    BY <1>2, <1>3 DEF ScenarioInv, HealerFits, backend
  <1> QED BY <1>1, <1>4, <1>5 DEF ScenarioInv

LEMMA StepScenarioInv == ScenarioInv /\ [ScenarioNext]_scenarioVars => ScenarioInv'
  <1> SUFFICES ASSUME ScenarioInv, [ScenarioNext]_scenarioVars
               PROVE  ScenarioInv'
    OBVIOUS
  <1>1. ASSUME NEW c \in Clicks, NEW s \in ScenarioNames, toggleScenario(c, s) PROVE ScenarioInv'
    <2> DEFINE o == [kind |-> IF s \in listed THEN "disable" ELSE "enable", name |-> s]
    <2>1. o \in Orders
      BY DEF Orders
    <2>2. Request(c, o)
      BY <1>1 DEF toggleScenario
    <2> QED BY <2>1, <2>2, RequestKeeps
  <1>2. ASSUME NEW c \in Clicks, repairAllScenarios(c) PROVE ScenarioInv'
    BY <1>2, FixAllIsOrder, RequestKeeps DEF repairAllScenarios
  <1>3. ASSUME NEW c \in Clicks, Effect(c) PROVE ScenarioInv'
    BY <1>3, EffectKeeps
  <1>4. ASSUME NEW c \in Clicks, Ends(c) PROVE ScenarioInv'
    BY <1>4, EndsKeeps
  <1>5. ASSUME NEW c \in Clicks, Fails(c) PROVE ScenarioInv'
    BY <1>5, FailsKeeps
  <1>6. ASSUME NEW c \in Clicks, HandlerEnds(c) PROVE ScenarioInv'
    BY <1>6, HandlerEndsKeeps
  <1>7. CASE Restart
    BY <1>7, RestartKeeps
  <1>8. CASE StrayEffect
    BY <1>8, StrayEffectKeeps
  <1>9. CASE PollAnswered \/ PollFails
    BY <1>9, ShowKeeps DEF PollAnswered, PollFails, Show
  <1>10. CASE UNCHANGED scenarioVars
    BY <1>10, ShowKeeps DEF scenarioVars, backend
  <1> QED
    BY <1>1, <1>2, <1>3, <1>4, <1>5, <1>6, <1>7, <1>8, <1>9, <1>10 DEF ScenarioNext

LEMMA ScenarioInvariance == ScenarioSpec => []ScenarioInv
  BY InitScenarioInv, StepScenarioInv, PTL DEF ScenarioSpec

\* For any registry whose scenarios have resources of their own: after requests
\* that did not overlap or fail, the set says what the cluster shows.
THEOREM OrderlyMatches == ScenarioSpec => []EnabledMatchesCluster
  <1>1. ScenarioInv => EnabledMatchesCluster
    BY DEF ScenarioInv, OrderlyFits, Sole, Matches, Broken, EnabledMatchesCluster
  <1> QED BY <1>1, ScenarioInvariance, PTL

\* And a "Repair All" that met no other request heals it, whatever came before.
THEOREM RepairAllHeals == ScenarioSpec => []FixAllHeals
  <1>1. ScenarioInv => FixAllHeals
    BY DEF ScenarioInv, HealerFits, FixAllHeals
  <1> QED BY <1>1, ScenarioInvariance, PTL
=============================================================================
