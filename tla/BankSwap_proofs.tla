---------------------------- MODULE BankSwap_proofs ----------------------------
(***************************************************************************)
(* Proofs about BankSwap, for any number of generations and runs and a     *)
(* device of either kind.                                                  *)
(*                                                                         *)
(* The argument.  At every moment one bank rests: its header and seal are  *)
(* durable, and the other bank's seal is of a lower generation wherever    *)
(* one looks.  The only other state of affairs is the window between an    *)
(* heir's seal landing and the barrier that makes it durable: then the     *)
(* heir is what a read finds, its predecessor is untouched and durable,    *)
(* and whichever of the two a power loss leaves rests.  A run that was     *)
(* acknowledged as started is the resting one or older, because nothing    *)
(* starts a run before a barrier has closed the window.                    *)
(***************************************************************************)
EXTENDS BankSwap, TLAPS

BlankSeal == Seal(Blank, Blank)

Live(bank) == bank.seal.gen \in Generations /\ bank.header = bank.seal.run

Kept(b) ==
  Live(view[b]) /\ durable[b].header = view[b].header /\ durable[b].seal = view[b].seal

StartedAt(b) ==
  /\ started <= view[b].header
  /\ started = view[b].header => view[b].journal = Opened /\ durable[b].journal = Opened

Rests(b) ==
  /\ Kept(b) /\ StartedAt(b)
  /\ view[Other(b)].seal.gen < view[b].seal.gen
  /\ durable[Other(b)].seal.gen < view[b].seal.gen

\* b's heir is sealed in the other bank, and no barrier has said so.
Yielding(b) ==
  /\ Kept(b) /\ StartedAt(b)
  /\ Live(view[Other(b)])
  /\ view[Other(b)].seal.gen = view[b].seal.gen + 1
  /\ view[Other(b)].header = view[b].header + 1
  /\ view[Other(b)].journal # Opened
  /\ durable[Other(b)].header = view[Other(b)].header
  /\ durable[Other(b)].seal = BlankSeal
  /\ durable[Other(b)].journal # Opened

Elected(b) == Rests(b) \/ Yielding(Other(b))

Unstarted(b) == started < view[b].header

Heir(bank, seal) == Bank(bank.header + 1, seal, Blank)

ModeShape ==
  /\ mode \in {"Begin", "BeginBarrier"} => Elected(booted) /\ Unstarted(booted)
  /\ mode \in {"BeginSeal", "BeginCommit"} => Rests(booted) /\ Unstarted(booted)
  /\ mode = "BeginCommit" => view[booted].journal = Opened
  /\ mode \in {"Running", "PrepareBarrier", "Stage", "PayloadBarrier", "Commit"} =>
       Rests(booted)
  /\ mode \in {"PrepareBarrier", "Stage", "PayloadBarrier", "Commit"} => MayContinue
  /\ mode \in {"PrepareBarrier", "Stage"} => view[Other(booted)] = BlankBank
  /\ mode = "Stage" => durable[Other(booted)] = BlankBank
  /\ mode \in {"PayloadBarrier", "Commit"} =>
       /\ view[Other(booted)] = Heir(view[booted], BlankSeal)
       /\ durable[Other(booted)].seal = BlankSeal
  /\ mode = "Commit" => durable[Other(booted)] = view[Other(booted)]
  /\ mode = "CommitBarrier" => Elected(Other(booted)) /\ Unstarted(Other(booted))
  /\ mode \in {"Reclaim", "ReclaimBarrier"} =>
       Rests(Other(booted)) /\ Unstarted(Other(booted))

IInv == TypeOK /\ ModeShape /\ \E b \in BankIds : Elected(b)

USE MaxGenerationAssumption, MaxRunAssumption, WriteThroughAssumption
-----------------------------------------------------------------------------
(* Facts about banks                                                       *)

LEMMA TwoBanks ==
  ASSUME NEW b \in BankIds
  PROVE  /\ Other(b) \in BankIds /\ Other(b) # b /\ Other(Other(b)) = b
         /\ \A c \in BankIds : c = b \/ c = Other(b)
BY DEF BankIds, Other

LEMMA BankType ==
  ASSUME NEW bank \in Banks
  PROVE  /\ bank = Bank(bank.header, bank.seal, bank.journal)
         /\ bank.header \in Int /\ bank.seal \in Seals /\ bank.seal.gen \in Int
         /\ bank.seal.run \in Int
         /\ bank.header \in Runs \cup {Blank, Torn}
         /\ bank.journal \in {Blank, Torn, Opened}
         /\ bank.seal = Seal(bank.seal.gen, bank.seal.run)
BY DEF Banks, Bank, Seals, Seal, Generations, Runs, Blank, Torn, Opened

LEMMA LiveBank ==
  ASSUME NEW bank \in Banks, Live(bank)
  PROVE  bank.header \in Runs /\ bank.seal.gen \in Generations
<1>1. bank.seal \in Seals /\ bank.seal.gen >= 1
  BY BankType DEF Live, Generations
<1>2. bank.seal.run \in Runs
  BY <1>1 DEF Seals, Seal, Blank, Torn
<1> QED BY <1>2 DEF Live

LEMMA PartialIsBetween ==
  ASSUME NEW old \in Banks, NEW new \in Banks, NEW left \in Partial(old, new)
  PROVE  /\ left \in Banks
         /\ left.header \in {old.header, new.header, Torn}
         /\ left.seal \in {old.seal, new.seal, Seal(Torn, Torn)}
         /\ left.journal \in {old.journal, new.journal, Torn}
         /\ old.header = new.header => left.header = new.header
         /\ old.seal = new.seal => left.seal = new.seal
         /\ old.journal = new.journal => left.journal = new.journal
<1>1. PICK h \in Between(old.header, new.header), s \in SealBetween(old.seal, new.seal),
           j \in Between(old.journal, new.journal) : left = Bank(h, s, j)
  BY DEF Partial
<1>2. left.header = h /\ left.seal = s /\ left.journal = j
  BY <1>1 DEF Bank
<1>3. /\ h \in {old.header, new.header, Torn} /\ (old.header = new.header => h = new.header)
      /\ j \in {old.journal, new.journal, Torn} /\ (old.journal = new.journal => j = new.journal)
      /\ s \in {old.seal, new.seal, Seal(Torn, Torn)} /\ (old.seal = new.seal => s = new.seal)
  BY DEF Between, SealBetween
<1>4. h \in Runs \cup {Blank, Torn} /\ s \in Seals /\ j \in {Blank, Torn, 1}
  BY <1>3 DEF Banks, Seals
<1>5. left \in Banks
  BY <1>1, <1>4 DEF Banks, Bank
<1> QED BY <1>2, <1>3, <1>5

LEMMA WholeIsPartial ==
  ASSUME NEW old \in Banks, NEW new \in Banks
  PROVE  new \in Partial(old, new)
<1>1. new = Bank(new.header, new.seal, new.journal)
  BY BankType
<1> QED BY <1>1 DEF Partial, Between, SealBetween

LEMMA BlankBankIsOne ==
  /\ BlankBank \in Banks
  /\ BlankBank.seal = BlankSeal /\ BlankBank.header = Blank /\ BlankBank.journal = Blank
BY DEF BlankBank, Banks, Bank, Seals, BlankSeal, Blank

\* What a call to the device may do, whether it returns Ok or not.
LEMMA DeviceLeaves ==
  ASSUME TypeOK, NEW b \in BankIds, NEW bank \in Banks, NEW next,
         Device(b, bank, next)
  PROVE  \E left \in Partial(view[b], bank) :
           /\ left \in Banks
           /\ view' = [view EXCEPT ![b] = left]
           /\ durable' = IF WriteThrough THEN [durable EXCEPT ![b] = left] ELSE durable
           /\ \/ mode' = next /\ left = bank
              \/ mode' = "Down"
           /\ booted' = booted /\ started' = started
           /\ view'[b] = left /\ view'[Other(b)] = view[Other(b)]
           /\ durable'[Other(b)] = durable[Other(b)]
           /\ durable'[b] = IF WriteThrough THEN left ELSE durable[b]
           /\ view' \in [BankIds -> Banks] /\ durable' \in [BankIds -> Banks]
<1>1. view \in [BankIds -> Banks] /\ durable \in [BankIds -> Banks] /\ view[b] \in Banks
  BY DEF TypeOK
<1>2. PICK left \in Partial(view[b], bank) :
        Leaves(b, left) /\ ((mode' = next /\ left = bank) \/ mode' = "Down")
  BY <1>1, WholeIsPartial DEF Device
<1>3. left \in Banks
  BY <1>1, PartialIsBetween
<1>4. Other(b) \in BankIds /\ Other(b) # b
  BY TwoBanks
<1> QED BY <1>1, <1>2, <1>3, <1>4 DEF Leaves, Device
-----------------------------------------------------------------------------
(* The bank a boot chooses                                                 *)

LEMMA ReadTypes ==
  ASSUME NEW bank \in Banks, NEW fault \in Faults
  PROVE  LET r == ReadBank(bank, fault)
         IN  /\ r.kind = "Found" => Live(bank) /\ r.gen = bank.seal.gen
             /\ r.kind = "Absent" \/ r.gen = bank.seal.gen
             /\ Live(bank) => r.kind # "Absent"
             /\ Live(bank) /\ fault = "None" => r.kind = "Found"
             /\ r.kind \in {"Absent", "Unreadable", "Found"}
             /\ r.kind = "Absent" \/ r.gen \in Generations
BY DEF ReadBank, BankRead, Live, Faults

\* Whatever could not be read, no bank but the elected one is preferred.
LEMMA ElectedIsPreferred ==
  ASSUME TypeOK, NEW e \in BankIds, Elected(e), NEW b \in BankIds,
         NEW f \in Faults, NEW g \in Faults,
         Preferred(ReadBank(view[b], f), ReadBank(view[Other(b)], g))
  PROVE  b = e
<1>1. /\ view[e] \in Banks /\ view[Other(e)] \in Banks /\ Other(e) \in BankIds
      /\ Other(Other(e)) = e /\ view[b] \in Banks /\ view[Other(b)] \in Banks
  BY TwoBanks DEF TypeOK
<1>2. Live(view[e]) /\ view[Other(e)].seal.gen < view[e].seal.gen
  <2>1. CASE Rests(e)
    BY <2>1 DEF Rests, Kept
  <2>2. CASE Yielding(Other(e))
    BY <2>2, <1>1, BankType DEF Yielding, Kept
  <2> QED BY <2>1, <2>2 DEF Elected
<1>3. SUFFICES ASSUME b = Other(e) PROVE FALSE
  BY TwoBanks
<1>4. /\ ReadBank(view[b], f).kind = "Found"
      /\ ReadBank(view[b], f).gen = view[Other(e)].seal.gen
  BY <1>1, <1>3, ReadTypes DEF Preferred
<1>5. /\ ReadBank(view[Other(b)], g).kind # "Absent"
      /\ ReadBank(view[Other(b)], g).gen = view[e].seal.gen
  BY <1>1, <1>2, <1>3, ReadTypes
<1> QED BY <1>1, <1>2, <1>4, <1>5, BankType DEF Preferred

LEMMA ElectedIsChosen ==
  ASSUME TypeOK, NEW e \in BankIds, Elected(e)
  PROVE  Chosen(view, e) /\ ~Chosen(view, Other(e))
<1>1. /\ view[e] \in Banks /\ view[Other(e)] \in Banks /\ Other(e) \in BankIds
      /\ Other(Other(e)) = e /\ Other(e) # e /\ "None" \in Faults
  BY TwoBanks DEF TypeOK, Faults
<1>2. Live(view[e]) /\ view[Other(e)].seal.gen < view[e].seal.gen
  <2>1. CASE Rests(e)
    BY <2>1 DEF Rests, Kept
  <2>2. CASE Yielding(Other(e))
    BY <2>2, <1>1, BankType DEF Yielding, Kept
  <2> QED BY <2>1, <2>2 DEF Elected
<1>3. Chosen(view, e)
  BY <1>1, <1>2, ReadTypes DEF Chosen, Preferred
<1>4. ~Chosen(view, Other(e))
  BY <1>1, ElectedIsPreferred DEF Chosen
<1> QED BY <1>3, <1>4

LEMMA ElectedIsChosenNext ==
  (\A e \in BankIds : TypeOK /\ Elected(e) => Chosen(view, e))'
<1>1. \A e \in BankIds : TypeOK /\ Elected(e) => Chosen(view, e)
  BY ElectedIsChosen
<1> QED BY <1>1, PTL
-----------------------------------------------------------------------------
(* What a step must keep                                                   *)

\* A bank that rests does so whatever becomes of the other, as long as no
\* seal of its generation or a later one appears there.
LEMMA RestsOn ==
  ASSUME NEW b \in BankIds, Rests(b),
         view'[b] = view[b], durable'[b] = durable[b], started' = started,
         view'[Other(b)].seal.gen < view[b].seal.gen,
         durable'[Other(b)].seal.gen < view[b].seal.gen
  PROVE  Rests(b)'
BY DEF Rests, Kept, StartedAt

LEMMA UnchangedElection ==
  ASSUME UNCHANGED <<view, durable, started>>, NEW b \in BankIds
  PROVE  /\ Rests(b)' = Rests(b) /\ Elected(b)' = Elected(b)
         /\ Unstarted(b)' = Unstarted(b)
<1>1. Other(b) \in BankIds
  BY TwoBanks
<1> QED BY <1>1 DEF Elected, Rests, Yielding, Kept, StartedAt, Unstarted

LEMMA InitIInv ==
  ASSUME Init
  PROVE  IInv
<1>1. /\ view["A"] = Bank(1, Seal(1, 1), Blank) /\ view["B"] = BlankBank
      /\ durable = view /\ started = 0 /\ mode = "Down" /\ booted = "A"
      /\ "A" \in BankIds /\ "B" \in BankIds /\ Other("A") = "B"
  BY DEF Init, BankIds, Other
<1>2. Bank(1, Seal(1, 1), Blank) \in Banks
  BY DEF Bank, Seal, Banks, Seals, Runs, Generations, Blank
<1>3. TypeOK
  BY <1>1, <1>2, BlankBankIsOne DEF Init, TypeOK
<1>4. Rests("A")
  BY <1>1 DEF Rests, Kept, Live, StartedAt, Bank, Seal, BlankBank, Blank, Generations
<1>5. ModeShape
  BY <1>1 DEF ModeShape
<1> QED BY <1>1, <1>3, <1>4, <1>5 DEF IInv, Elected

LEMMA BootStep ==
  ASSUME IInv, NEW b \in BankIds, NEW faults \in [BankIds -> Faults], Boot(b, faults)
  PROVE  IInv' /\ \E e \in BankIds : Elected(e) /\ Elected(e)'
<1>0. TypeOK /\ UNCHANGED <<view, durable, started>> /\ booted' = b
      /\ Other(b) \in BankIds /\ Other(Other(b)) = b
  BY TwoBanks DEF IInv, Boot
<1>1. PICK e \in BankIds : Elected(e)
  BY DEF IInv
<1>2. Elected(b)
  <2>1. faults[b] \in Faults /\ faults[Other(b)] \in Faults
    BY <1>0
  <2> QED BY <1>0, <1>1, <2>1, ElectedIsPreferred DEF Boot
<1>3. TypeOK'
  BY <1>0 DEF TypeOK, Boot
<1>4. view[b] \in Banks /\ view[Other(b)] \in Banks /\ started \in Int
  BY <1>0 DEF TypeOK
<1>5. CASE view[b].journal = Blank /\ mode' = "Begin"
  <2>1. Unstarted(b)
    <3>1. CASE Rests(b)
      BY <1>4, <1>5, <3>1, BankType DEF Rests, StartedAt, Unstarted, Blank, Opened
    <3>2. CASE Yielding(Other(b))
      BY <1>0, <1>4, <3>2, BankType DEF Yielding, StartedAt, Unstarted
    <3> QED BY <1>2, <3>1, <3>2 DEF Elected
  <2>2. ModeShape'
    BY <1>0, <1>2, <1>5, <2>1, UnchangedElection DEF ModeShape
  <2> QED BY <1>0, <1>2, <1>3, <2>2, UnchangedElection DEF IInv
<1>6. CASE view[b].journal = Opened /\ mode' = "Running"
  <2>1. Rests(b)
    BY <1>0, <1>2, <1>6 DEF Elected, Yielding
  <2>2. ModeShape'
    BY <1>0, <1>6, <2>1, UnchangedElection DEF ModeShape
  <2> QED BY <1>0, <1>2, <1>3, <2>2, UnchangedElection DEF IInv
<1> QED BY <1>5, <1>6 DEF Boot
-----------------------------------------------------------------------------
(* begin                                                                   *)

\* The journal of the elected bank may be written as long as its run has not
\* been acknowledged as started.
LEMMA JournalWrite ==
  ASSUME TypeOK, NEW b \in BankIds, Elected(b), Unstarted(b),
         NEW journal \in {Blank, Torn, Opened},
         journal # Opened \/ Rests(b),
         view[b].journal # Opened \/ Rests(b),
         NEW next,
         Device(b, Bank(view[b].header, view[b].seal, journal), next)
  PROVE  /\ Elected(b)' /\ Unstarted(b)'
         /\ Rests(b) => Rests(b)'
         /\ view' \in [BankIds -> Banks] /\ durable' \in [BankIds -> Banks]
         /\ booted' = booted /\ started' = started
         /\ mode' \in {next, "Down"}
         /\ mode' = next /\ next # "Down" => view'[b].journal = journal
<1> DEFINE bank == Bank(view[b].header, view[b].seal, journal)
<1>1. view[b] \in Banks /\ Other(b) \in BankIds /\ Other(Other(b)) = b
  BY TwoBanks DEF TypeOK
<1>2. bank \in Banks /\ bank.header = view[b].header /\ bank.seal = view[b].seal
      /\ bank.journal = journal
  BY <1>1, BankType DEF Bank, Banks, Opened
<1>3. PICK left \in Partial(view[b], bank) :
           /\ durable' = IF WriteThrough THEN [durable EXCEPT ![b] = left] ELSE durable
           /\ (mode' = next /\ left = bank) \/ mode' = "Down"
           /\ booted' = booted /\ started' = started
           /\ view'[b] = left /\ view'[Other(b)] = view[Other(b)]
           /\ durable'[Other(b)] = durable[Other(b)]
           /\ durable'[b] = IF WriteThrough THEN left ELSE durable[b]
           /\ view' \in [BankIds -> Banks] /\ durable' \in [BankIds -> Banks]
  BY <1>1, <1>2, DeviceLeaves
<1>4. left.header = view[b].header /\ left.seal = view[b].seal
      /\ left.journal \in {view[b].journal, journal, Torn}
  BY <1>1, <1>2, PartialIsBetween
<1>5. Unstarted(b)'
  BY <1>3, <1>4 DEF Unstarted
<1>6. view[b].header \in Int /\ started \in Int
  BY <1>1, BankType DEF TypeOK
<1>7. /\ view'[b].header = view[b].header /\ view'[b].seal = view[b].seal
      /\ durable'[b].header \in {durable[b].header, view[b].header}
      /\ durable'[b].seal \in {durable[b].seal, view[b].seal}
      /\ durable'[b].journal \in {durable[b].journal, left.journal}
      /\ WriteThrough => durable'[b].seal = view[b].seal
      /\ ~WriteThrough => durable'[b] = durable[b]
  BY <1>3, <1>4
<1>8. ASSUME Rests(b) PROVE Rests(b)'
  <2>1. Kept(b)'
    BY <1>7, <1>8 DEF Rests, Kept, Live
  <2>2. StartedAt(b)'
    BY <1>3, <1>6, <1>7 DEF StartedAt, Unstarted
  <2> QED BY <2>1, <2>2, <1>3, <1>7, <1>8 DEF Rests
<1>9. ASSUME Yielding(Other(b)), ~Rests(b) PROVE Elected(b)'
  <2>1. left.journal # Opened
    BY <1>4, <1>9 DEF Torn, Opened
  <2>2. Kept(Other(b))' /\ StartedAt(Other(b))'
    BY <1>3, <1>9 DEF Yielding, Kept, StartedAt
  <2>3. CASE WriteThrough
    <3>1. Rests(b)'
      <4>1. view[Other(b)] \in Banks
        BY <1>1 DEF TypeOK
      <4>2. Kept(b)'
        BY <1>1, <1>3, <1>4, <1>9, <2>3 DEF Kept, Yielding, Live
      <4>3. StartedAt(b)'
        BY <1>3, <1>6, <1>7 DEF StartedAt, Unstarted
      <4>4. /\ view'[Other(b)].seal.gen < view'[b].seal.gen
            /\ durable'[Other(b)].seal.gen < view'[b].seal.gen
        BY <1>1, <1>3, <1>7, <1>9, <4>1, BankType DEF Yielding, Kept
      <4> QED BY <4>2, <4>3, <4>4 DEF Rests
    <3> QED BY <3>1 DEF Elected
  <2>4. CASE ~WriteThrough
    <3>1. Yielding(Other(b))'
      BY <1>1, <1>3, <1>7, <1>9, <2>1, <2>2, <2>4 DEF Yielding, Live
    <3> QED BY <3>1 DEF Elected
  <2> QED BY <2>3, <2>4
<1> QED BY <1>2, <1>3, <1>5, <1>8, <1>9 DEF Elected

\* A barrier that returns Ok makes the elected bank rest; one that does not
\* changes nothing.
LEMMA BarrierElects ==
  ASSUME TypeOK, NEW b \in BankIds, Elected(b), view' = view,
         durable' = view \/ durable' = durable
  PROVE  /\ started' = started /\ Rests(b) => Rests(b)'
         /\ started' = started => Elected(b)'
         /\ started' = started /\ Unstarted(b) => Unstarted(b)'
         /\ durable' = view /\ started' = started /\ Unstarted(b) => Rests(b)'
         /\ durable' = view /\ started' = view[b].header /\ view[b].journal = Opened
              => Rests(b)'
<1>1. /\ view[b] \in Banks /\ view[Other(b)] \in Banks /\ Other(b) \in BankIds
      /\ Other(Other(b)) = b /\ started \in Int
  BY TwoBanks DEF TypeOK
<1>2. Live(view[b]) /\ view[Other(b)].seal.gen < view[b].seal.gen
  <2>1. CASE Rests(b)
    BY <2>1 DEF Rests, Kept
  <2>2. CASE Yielding(Other(b))
    BY <2>2, <1>1, BankType DEF Yielding, Kept
  <2> QED BY <2>1, <2>2 DEF Elected
<1>3. ASSUME started' = started, Rests(b) PROVE Rests(b)'
  BY <1>2, <1>3 DEF Rests, Kept, StartedAt
<1>4. ASSUME started' = started, Unstarted(b) PROVE Unstarted(b)'
  BY <1>4 DEF Unstarted
<1>5. ASSUME durable' = view, StartedAt(b)' PROVE Rests(b)'
  BY <1>2, <1>5 DEF Rests, Kept
<1>6. ASSUME durable' = view, started' = started, Unstarted(b) PROVE Rests(b)'
  <2>1. StartedAt(b)'
    BY <1>1, <1>6, BankType DEF Unstarted, StartedAt
  <2> QED BY <1>5, <1>6, <2>1
<1>7. ASSUME durable' = view, started' = view[b].header, view[b].journal = Opened
      PROVE  Rests(b)'
  <2>1. StartedAt(b)'
    BY <1>1, <1>7, BankType DEF StartedAt
  <2> QED BY <1>5, <1>7, <2>1
<1>8. ASSUME started' = started PROVE Elected(b)'
  <2>1. CASE Rests(b)
    BY <1>3, <1>8, <2>1 DEF Elected
  <2>2. CASE Yielding(Other(b)) /\ durable' = view
    <3>1. Unstarted(b)
      BY <1>1, <2>2, BankType DEF Yielding, StartedAt, Unstarted
    <3> QED BY <1>6, <1>8, <2>2, <3>1 DEF Elected
  <2>3. CASE Yielding(Other(b)) /\ durable' = durable
    BY <1>8, <2>3, UnchangedElection
  <2> QED BY <2>1, <2>2, <2>3 DEF Elected
<1> QED BY <1>3, <1>4, <1>6, <1>7, <1>8

LEMMA BeginWriteStep ==
  ASSUME IInv, BeginStage \/ BeginSeal
  PROVE  IInv' /\ \E e \in BankIds : Elected(e) /\ Elected(e)'
<1>1. TypeOK /\ booted \in BankIds /\ view[booted] \in Banks /\ durable \in [BankIds -> Banks]
  BY DEF IInv, TypeOK
<1>2. Elected(booted) /\ Unstarted(booted)
  BY DEF IInv, ModeShape, BeginStage, BeginSeal, Elected
<1>3. CASE BeginStage
  <2>1. Device(booted, Bank(view[booted].header, view[booted].seal, Torn), "BeginBarrier")
    BY <1>3 DEF BeginStage, WithTornJournal
  <2>2. view[booted].journal # Opened \/ Rests(booted)
    BY <1>2, <1>1, TwoBanks DEF Elected, Yielding
  <2>3. /\ Elected(booted)' /\ Unstarted(booted)'
        /\ view' \in [BankIds -> Banks] /\ durable' \in [BankIds -> Banks]
        /\ booted' = booted /\ started' = started /\ mode' \in {"BeginBarrier", "Down"}
    <3>1. Torn # Opened
      BY DEF Torn, Opened
    <3> QED BY <1>1, <1>2, <2>1, <2>2, <3>1, JournalWrite
  <2>4. TypeOK' /\ ModeShape'
    BY <1>1, <2>3 DEF TypeOK, ModeShape, Elected, Rests, Yielding, Kept, StartedAt, Unstarted
  <2> QED BY <1>1, <1>2, <2>3, <2>4 DEF IInv
<1>4. CASE BeginSeal
  <2>1. Rests(booted)
    BY <1>4 DEF IInv, ModeShape, BeginSeal
  <2>2. /\ Rests(booted)' /\ Unstarted(booted)'
        /\ view' \in [BankIds -> Banks] /\ durable' \in [BankIds -> Banks]
        /\ booted' = booted /\ started' = started /\ mode' \in {"BeginCommit", "Down"}
        /\ mode' = "BeginCommit" => view'[booted].journal = Opened
    BY <1>1, <1>2, <1>4, <2>1, JournalWrite DEF BeginSeal
  <2>3. TypeOK' /\ ModeShape'
    BY <1>1, <2>2 DEF TypeOK, ModeShape, Rests, Kept, StartedAt, Unstarted
  <2> QED BY <1>1, <1>2, <2>2, <2>3 DEF IInv, Elected
<1> QED BY <1>3, <1>4

LEMMA BeginBarrierStep ==
  ASSUME IInv, BeginBarrier \/ BeginCommit
  PROVE  IInv' /\ \E e \in BankIds : Elected(e) /\ Elected(e)'
<1>1. /\ TypeOK /\ booted \in BankIds /\ view[booted] \in Banks /\ booted' = booted
      /\ view' = view /\ (durable' = view \/ durable' = durable)
  BY DEF IInv, TypeOK, BeginBarrier, BeginCommit, Barrier
<1>2. Elected(booted) /\ Unstarted(booted)
  BY DEF IInv, ModeShape, BeginBarrier, BeginCommit, Elected
<1>3. Live(view[booted])
  BY <1>1, <1>2, TwoBanks DEF Elected, Rests, Yielding, Kept
<1>4. CASE BeginBarrier
  <2>1. started' = started /\ mode' \in {"BeginSeal", "Down"}
        /\ (mode' = "BeginSeal" => durable' = view)
    BY <1>4 DEF BeginBarrier, Barrier
  <2>2. /\ Elected(booted)' /\ Unstarted(booted)'
        /\ mode' = "BeginSeal" => Rests(booted)'
    BY <1>1, <1>2, <2>1, BarrierElects
  <2>3. TypeOK' /\ ModeShape'
    BY <1>1, <2>1, <2>2 DEF TypeOK, ModeShape, Rests, Kept, StartedAt, Unstarted
  <2> QED BY <1>1, <1>2, <2>2, <2>3 DEF IInv
<1>5. CASE BeginCommit
  <2>1. /\ mode' \in {"Running", "Down"} /\ (mode' = "Running" => durable' = view)
        /\ started' = IF mode' = "Running" THEN view[booted].header ELSE started
        /\ view[booted].journal = Opened /\ Rests(booted)
    BY <1>5 DEF BeginCommit, Barrier, IInv, ModeShape
  <2>2. Rests(booted)'
    BY <1>1, <1>2, <2>1, BarrierElects
  <2>3. started' \in 0 .. MaxRun
    BY <1>1, <1>3, <2>1, LiveBank DEF Runs, TypeOK
  <2>4. TypeOK' /\ ModeShape'
    BY <1>1, <2>1, <2>2, <2>3 DEF TypeOK, ModeShape, Rests, Kept, StartedAt, Unstarted
  <2> QED BY <1>1, <1>2, <2>2, <2>4 DEF IInv, Elected
<1> QED BY <1>4, <1>5
-----------------------------------------------------------------------------
(* swap_in                                                                 *)

\* Whatever is left of a call on the other bank, a bank that rests goes on
\* resting, unless the call seals an heir there.
LEMMA OtherBankWrite ==
  ASSUME TypeOK, NEW b \in BankIds, Rests(b), NEW bank \in Banks,
         bank.seal.gen < view[b].seal.gen, NEW next, next # "Down",
         Device(Other(b), bank, next)
  PROVE  /\ Rests(b)' /\ view'[b] = view[b] /\ durable'[b] = durable[b]
         /\ booted' = booted /\ started' = started
         /\ view' \in [BankIds -> Banks] /\ durable' \in [BankIds -> Banks]
         /\ mode' \in {next, "Down"}
         /\ mode' = next => view'[Other(b)] = bank
         /\ mode' = next => durable'[Other(b)] \in {bank, durable[Other(b)]}
<1>1. /\ Other(b) \in BankIds /\ Other(Other(b)) = b /\ view[b] \in Banks
      /\ view[Other(b)] \in Banks /\ view \in [BankIds -> Banks]
  BY TwoBanks DEF TypeOK
<1>2. PICK left \in Partial(view[Other(b)], bank) :
           /\ (mode' = next /\ left = bank) \/ mode' = "Down"
           /\ booted' = booted /\ started' = started
           /\ view'[Other(b)] = left /\ view'[b] = view[b] /\ durable'[b] = durable[b]
           /\ durable'[Other(b)] = IF WriteThrough THEN left ELSE durable[Other(b)]
           /\ view' \in [BankIds -> Banks] /\ durable' \in [BankIds -> Banks]
  BY <1>1, DeviceLeaves
<1>3. left.seal.gen < view[b].seal.gen
  <2>1. left.seal \in {view[Other(b)].seal, bank.seal, Seal(Torn, Torn)}
    BY <1>1, PartialIsBetween
  <2>2. view[Other(b)].seal.gen < view[b].seal.gen /\ view[b].seal.gen \in Generations
    BY DEF Rests, Kept, Live
  <2>3. Seal(Torn, Torn).gen < view[b].seal.gen
    BY <2>2 DEF Seal, Torn, Generations
  <2> QED BY <2>1, <2>2, <2>3
<1>4. durable'[Other(b)].seal.gen < view[b].seal.gen
  BY <1>2, <1>3 DEF Rests
<1>5. Rests(b)'
  BY <1>2, <1>3, <1>4, RestsOn
<1> QED BY <1>2, <1>5

LEMMA NextHeader ==
  ASSUME TypeOK, Live(view[booted]), MayContinue
  PROVE  /\ Heir(view[booted], BlankSeal) \in Banks
         /\ Seal(view[booted].seal.gen + 1, view[booted].header + 1) \in Seals
<1>1. view[booted].header \in Runs /\ view[booted].seal.gen \in Generations
  BY LiveBank DEF TypeOK
<1>2. view[booted].header + 1 \in Runs /\ view[booted].seal.gen + 1 \in Generations
  BY <1>1 DEF MayContinue, Runs, Generations
<1> QED BY <1>2 DEF Heir, BlankSeal, Bank, Banks, Seal, Seals

LEMMA SwapWriteStep ==
  ASSUME IInv, Prepare \/ Stage
  PROVE  IInv' /\ \E e \in BankIds : Elected(e) /\ Elected(e)'
<1>1. /\ TypeOK /\ booted \in BankIds /\ Rests(booted) /\ MayContinue
      /\ view[booted] \in Banks
  BY DEF IInv, TypeOK, ModeShape, Prepare, Stage
<1>2. view[booted].seal.gen > 0 /\ Live(view[booted])
  BY <1>1 DEF Rests, Kept, Live, Generations
<1>3. CASE Prepare
  <2>1. BlankBank.seal.gen < view[booted].seal.gen
    BY <1>2, BlankBankIsOne DEF BlankSeal, Seal, Blank
  <2>2. /\ Rests(booted)' /\ view'[booted] = view[booted] /\ booted' = booted
        /\ started' = started /\ view' \in [BankIds -> Banks]
        /\ durable' \in [BankIds -> Banks] /\ mode' \in {"PrepareBarrier", "Down"}
        /\ mode' = "PrepareBarrier" => view'[Other(booted)] = BlankBank
    BY <1>1, <1>3, <2>1, BlankBankIsOne, OtherBankWrite DEF Prepare, Installing
  <2>3. TypeOK' /\ ModeShape'
    BY <1>1, <2>2 DEF TypeOK, ModeShape, MayContinue, Rests, Kept, StartedAt
  <2> QED BY <1>1, <2>2, <2>3 DEF IInv, Elected
<1>4. CASE Stage
  <2> DEFINE bank == Heir(view[booted], BlankSeal)
  <2>1. /\ WithHeader(view[Other(booted)], view[booted].header + 1) = bank
        /\ durable[Other(booted)] = BlankBank
    BY <1>4 DEF Stage, IInv, ModeShape, WithHeader, Programmed, Heir, BlankBank, BlankSeal, Bank
  <2>2. bank \in Banks /\ bank.seal = BlankSeal /\ bank.seal.gen < view[booted].seal.gen
    BY <1>1, <1>2, NextHeader DEF Heir, Bank, BlankSeal, Seal, Blank
  <2> HIDE DEF bank
  <2>3. /\ Rests(booted)' /\ view'[booted] = view[booted] /\ booted' = booted
        /\ started' = started /\ view' \in [BankIds -> Banks]
        /\ durable' \in [BankIds -> Banks] /\ mode' \in {"PayloadBarrier", "Down"}
        /\ mode' = "PayloadBarrier" => view'[Other(booted)] = bank
        /\ mode' = "PayloadBarrier" => durable'[Other(booted)] \in {bank, BlankBank}
    BY <1>1, <1>4, <2>1, <2>2, OtherBankWrite DEF Stage, Installing
  <2>4. mode' = "PayloadBarrier" => durable'[Other(booted)].seal = BlankSeal
    BY <2>2, <2>3, BlankBankIsOne
  <2>5. TypeOK' /\ ModeShape'
    BY <1>1, <2>3, <2>4 DEF bank, TypeOK, ModeShape, MayContinue, Rests, Kept, StartedAt
  <2> QED BY <1>1, <2>3, <2>5 DEF IInv, Elected
<1> QED BY <1>3, <1>4

LEMMA SwapBarrierStep ==
  ASSUME IInv, PrepareBarrier \/ PayloadBarrier
  PROVE  IInv' /\ \E e \in BankIds : Elected(e) /\ Elected(e)'
<1>1. /\ TypeOK /\ booted \in BankIds /\ Rests(booted) /\ MayContinue
      /\ booted' = booted /\ view' = view /\ (durable' = view \/ durable' = durable)
      /\ started' = started
  BY DEF IInv, TypeOK, ModeShape, PrepareBarrier, PayloadBarrier, Barrier
<1>2. Rests(booted)'
  BY <1>1, BarrierElects DEF Elected
<1>3. CASE PrepareBarrier
  <2>1. ModeShape'
    BY <1>1, <1>2, <1>3 DEF IInv, ModeShape, PrepareBarrier, Barrier, MayContinue
  <2> QED BY <1>1, <1>2, <1>3, <2>1 DEF IInv, TypeOK, PrepareBarrier, Barrier, Elected
<1>4. CASE PayloadBarrier
  <2>1. Heir(view[booted], BlankSeal).seal = BlankSeal
    BY DEF Heir, Bank
  <2>2. ModeShape'
    BY <1>1, <1>2, <1>4, <2>1 DEF IInv, ModeShape, PayloadBarrier, Barrier, MayContinue
  <2> QED BY <1>1, <1>2, <1>4, <2>2 DEF IInv, TypeOK, PayloadBarrier, Barrier, Elected
<1> QED BY <1>3, <1>4

\* b's successor in generation and in run.
Succeeds(b) ==
  /\ view'[Other(b)].seal.gen = view[b].seal.gen + 1
  /\ view'[Other(b)].header = view[b].header + 1

LEMMA CommitStep ==
  ASSUME IInv, Commit
  PROVE  /\ IInv' /\ mode = "Commit" /\ Elected(booted)
         /\ Elected(booted)' \/ (Elected(Other(booted))' /\ Succeeds(booted))
<1>0. booted \in BankIds /\ Other(booted) \in BankIds
  BY TwoBanks DEF IInv, TypeOK
<1>o. PICK o \in BankIds : o = Other(booted)
  BY <1>0
<1> DEFINE seal == Seal(view[booted].seal.gen + 1, view[booted].header + 1)
           bank == Heir(view[booted], seal)
<1>1. /\ TypeOK /\ booted \in BankIds /\ Rests(booted) /\ MayContinue
      /\ view[booted] \in Banks /\ mode = "Commit"
      /\ o \in BankIds /\ Other(o) = booted /\ o # booted
      /\ view[o] = Heir(view[booted], BlankSeal) /\ durable[o] = view[o]
  BY <1>o, TwoBanks DEF IInv, TypeOK, ModeShape, Commit
<1>2. view[booted].header \in Runs /\ view[booted].seal.gen \in Generations /\ started \in Int
      /\ Live(view[booted])
  BY <1>1, LiveBank DEF Rests, Kept, TypeOK
<1>3. seal \in Seals /\ bank \in Banks /\ seal.gen = view[booted].seal.gen + 1
      /\ seal.run = view[booted].header + 1 /\ seal.gen \in Generations
  <2>1. seal \in Seals
    BY <1>1, <1>2, NextHeader
  <2>2. Heir(view[booted], BlankSeal) \in Banks
    BY <1>1, <1>2, NextHeader
  <2>3. bank \in Banks
    BY <2>1, <2>2 DEF Heir, Bank, Banks
  <2> QED BY <1>1, <1>2, <2>1, <2>3 DEF Seal, MayContinue, Generations
<1>4. Device(o, bank, "CommitBarrier")
  BY <1>1, <1>o DEF Commit, Installing, WithSeal, NextSeal, SealProgrammed, Heir, Bank, BlankSeal
<1>5. /\ bank.header = view[booted].header + 1 /\ bank.seal = seal /\ bank.journal = Blank
      /\ view[o].header = view[booted].header + 1 /\ view[o].seal = BlankSeal
      /\ view[o].journal = Blank /\ view[o] \in Banks
  BY <1>1, TwoBanks DEF Heir, Bank, TypeOK
<1> HIDE DEF seal, bank
<1>6. PICK left \in Partial(view[o], bank) :
           /\ (mode' = "CommitBarrier" /\ left = bank) \/ mode' = "Down"
           /\ booted' = booted /\ started' = started
           /\ view'[o] = left /\ view'[booted] = view[booted]
           /\ durable'[booted] = durable[booted]
           /\ durable'[o] = IF WriteThrough THEN left ELSE durable[o]
           /\ view' \in [BankIds -> Banks] /\ durable' \in [BankIds -> Banks]
  BY <1>1, <1>3, <1>4, DeviceLeaves
<1>7. /\ left.header = view[booted].header + 1
      /\ left.journal = Blank
      /\ left.seal \in {BlankSeal, seal, Seal(Torn, Torn)}
  BY <1>3, <1>5, PartialIsBetween
<1>8. TypeOK'
  BY <1>1, <1>6 DEF TypeOK
<1>9. CASE left.seal = seal
  <2>1. Live(left)
    BY <1>3, <1>7, <1>9 DEF Live
  <2>2. Unstarted(o)'
    BY <1>1, <1>2, <1>6, <1>7 DEF Unstarted, Rests, StartedAt, Runs
  <2>3. CASE WriteThrough
    <3>1. Kept(o)' /\ StartedAt(o)'
      BY <1>2, <1>6, <1>7, <2>1, <2>2, <2>3 DEF Kept, StartedAt, Unstarted, Runs
    <3>2. /\ view'[booted].seal.gen < view'[o].seal.gen
          /\ durable'[booted].seal.gen < view'[o].seal.gen
      BY <1>1, <1>2, <1>3, <1>6, <1>9 DEF Rests, Kept, Generations
    <3> QED BY <1>o, <1>1, <1>3, <1>6, <1>7, <1>8, <1>9, <2>2, <3>1, <3>2
            DEF IInv, ModeShape, Elected, Rests, Succeeds
  <2>4. CASE ~WriteThrough
    <3>1. Kept(booted)' /\ StartedAt(booted)'
      BY <1>1, <1>6 DEF Rests, Kept, StartedAt
    <3>2. /\ durable'[o].header = left.header /\ durable'[o].seal = BlankSeal
          /\ durable'[o].journal # Opened /\ left.journal # Opened
      BY <1>1, <1>5, <1>6, <1>7, <2>4 DEF Blank, Opened
    <3>3. Yielding(booted)'
      BY <1>o, <1>1, <1>3, <1>6, <1>7, <1>9, <2>1, <3>1, <3>2 DEF Yielding
    <3>4. Elected(o)'
      BY <1>1, <3>3, <1>6 DEF Elected
    <3> QED BY <1>o, <1>1, <1>3, <1>6, <1>7, <1>8, <1>9, <2>2, <3>4
            DEF IInv, ModeShape, Elected, Succeeds
  <2> QED BY <2>3, <2>4
<1>10. CASE left.seal # seal
  <2>1. mode' = "Down"
    BY <1>5, <1>6, <1>10
  <2>2. left.seal.gen < view[booted].seal.gen
    BY <1>2, <1>7, <1>10 DEF BlankSeal, Seal, Blank, Torn, Generations
  <2>3. durable'[o].seal.gen < view[booted].seal.gen
    BY <1>o, <1>1, <1>6, <2>2 DEF Rests
  <2>4. Rests(booted)'
    BY <1>o, <1>1, <1>6, <2>2, <2>3, RestsOn
  <2> QED BY <1>1, <1>6, <1>8, <2>1, <2>4 DEF IInv, ModeShape, Elected
<1> QED BY <1>9, <1>10

LEMMA CommitBarrierStep ==
  ASSUME IInv, CommitBarrier \/ ReclaimBarrier
  PROVE  IInv' /\ \E e \in BankIds : Elected(e) /\ Elected(e)'
<1>1. /\ TypeOK /\ booted \in BankIds /\ Other(booted) \in BankIds
      /\ Elected(Other(booted)) /\ Unstarted(Other(booted))
      /\ booted' = booted /\ view' = view /\ (durable' = view \/ durable' = durable)
      /\ started' = started /\ mode' \in {"Reclaim", "Down"}
      /\ mode' = "Reclaim" => durable' = view
  BY TwoBanks DEF IInv, TypeOK, ModeShape, CommitBarrier, ReclaimBarrier, Barrier, Elected
<1>2. /\ Elected(Other(booted))' /\ Unstarted(Other(booted))'
      /\ mode' = "Reclaim" => Rests(Other(booted))'
  BY <1>1, BarrierElects
<1>3. Other(booted)' = Other(booted)
  BY <1>1
<1>4. ModeShape'
  BY <1>1, <1>2 DEF ModeShape
<1> QED BY <1>1, <1>2, <1>4 DEF IInv, TypeOK

LEMMA ReclaimStep ==
  ASSUME IInv, Reclaim
  PROVE  IInv' /\ \E e \in BankIds : Elected(e) /\ Elected(e)'
<1>0. booted \in BankIds /\ Other(booted) \in BankIds
  BY TwoBanks DEF IInv, TypeOK
<1>o. PICK o \in BankIds : o = Other(booted)
  BY <1>0
<1>1. /\ TypeOK /\ booted \in BankIds /\ o \in BankIds /\ Other(o) = booted
      /\ Rests(o) /\ Unstarted(o)
  BY <1>o, TwoBanks DEF IInv, TypeOK, ModeShape, Reclaim
<1>2. BlankBank.seal.gen < view[o].seal.gen
  BY <1>1, BlankBankIsOne DEF BlankSeal, Seal, Blank, Rests, Kept, Live, Generations
<1>3. Device(Other(o), BlankBank, "ReclaimBarrier")
  BY <1>1 DEF Reclaim
<1>4. /\ Rests(o)' /\ view'[o] = view[o] /\ booted' = booted /\ started' = started
      /\ view' \in [BankIds -> Banks] /\ durable' \in [BankIds -> Banks]
      /\ mode' \in {"ReclaimBarrier", "Down"}
  BY <1>1, <1>2, <1>3, BlankBankIsOne, OtherBankWrite
<1>5. Unstarted(o)'
  BY <1>1, <1>4 DEF Unstarted
<1>6. TypeOK' /\ ModeShape'
  BY <1>o, <1>1, <1>4, <1>5 DEF TypeOK, ModeShape
<1> QED BY <1>1, <1>4, <1>6 DEF IInv, Elected

LEMMA ResetStep ==
  ASSUME IInv, Reset \/ UNCHANGED vars
  PROVE  IInv' /\ \E e \in BankIds : Elected(e) /\ Elected(e)'
<1>1. /\ TypeOK /\ UNCHANGED <<view, durable, started, booted>>
      /\ mode' = "Down" \/ mode' = mode
  BY DEF IInv, Reset, vars
<1>2. PICK e \in BankIds : Elected(e)
  BY DEF IInv
<1>3. Elected(e)'
  BY <1>1, <1>2, UnchangedElection
<1>4. ModeShape'
  <2>1. CASE mode' = "Down"
    BY <2>1 DEF ModeShape
  <2>2. CASE mode' = mode
    BY <1>1, <2>2 DEF IInv, ModeShape, Elected, Rests, Yielding, Kept, StartedAt,
                      Unstarted, MayContinue
  <2> QED BY <1>1, <2>1, <2>2
<1> QED BY <1>1, <1>2, <1>3, <1>4 DEF IInv, TypeOK

LEMMA PowerLossStep ==
  ASSUME IInv, PowerLoss
  PROVE  IInv'
<1>1. TypeOK /\ mode' = "Down" /\ booted' = booted /\ started' = started
  BY DEF IInv, PowerLoss
<1>2. /\ durable' = view' /\ view' = [b \in BankIds |-> view'[b]]
      /\ \A b \in BankIds : view'[b] \in Partial(durable[b], view[b])
  BY DEF PowerLoss
<1>3. \A b \in BankIds : view[b] \in Banks /\ durable[b] \in Banks /\ view'[b] \in Banks
  BY <1>1, <1>2, PartialIsBetween DEF TypeOK
<1>4. view' \in [BankIds -> Banks] /\ durable' \in [BankIds -> Banks]
  BY <1>2, <1>3
<1>5. ASSUME NEW b \in BankIds, Kept(b)
      PROVE  /\ view'[b].header = view[b].header /\ view'[b].seal = view[b].seal
             /\ Kept(b)' /\ (StartedAt(b) => StartedAt(b)')
  <2>1. view'[b].header = view[b].header /\ view'[b].seal = view[b].seal
        /\ (durable[b].journal = view[b].journal => view'[b].journal = view[b].journal)
    BY <1>2, <1>3, <1>5, PartialIsBetween DEF Kept
  <2> QED BY <1>1, <1>2, <1>5, <2>1 DEF Kept, Live, StartedAt
<1>6. ASSUME NEW b \in BankIds, Rests(b) PROVE Rests(b)'
  <2>1. /\ view'[Other(b)].seal \in
             {durable[Other(b)].seal, view[Other(b)].seal, Seal(Torn, Torn)}
        /\ Seal(Torn, Torn).gen = Torn /\ view[b].seal.gen > Torn
    BY <1>2, <1>3, <1>6, TwoBanks, PartialIsBetween
       DEF Rests, Kept, Live, Seal, Torn, Generations
  <2>2. view'[Other(b)].seal.gen < view[b].seal.gen
    BY <1>6, <2>1 DEF Rests
  <2> QED BY <1>2, <1>5, <1>6, <2>2 DEF Rests
<1>7. ASSUME NEW b \in BankIds, Yielding(b) PROVE Rests(b)' \/ Rests(Other(b))'
  <2> DEFINE o == Other(b)
  <2>1. /\ o \in BankIds /\ Other(o) = b /\ Kept(b) /\ StartedAt(b) /\ Live(view[b])
        /\ view[b].header \in Int /\ view[b].seal.gen \in Generations /\ started \in Int
    BY <1>1, <1>3, <1>7, TwoBanks, BankType DEF Yielding, Kept, Live, TypeOK
  <2>2. /\ view'[o].seal \in {BlankSeal, view[o].seal, Seal(Torn, Torn)}
        /\ view'[o].header = view[o].header
    BY <1>2, <1>3, <1>7, <2>1, PartialIsBetween DEF Yielding
  <2>3. CASE view'[o].seal = view[o].seal
    <3>1. Kept(o)' /\ StartedAt(o)'
      <4>1. view'[o].header = view[b].header + 1 /\ started' <= view[b].header
        BY <1>1, <1>7, <2>1, <2>2 DEF Yielding, StartedAt
      <4>2. StartedAt(o)'
        BY <1>1, <2>1, <4>1 DEF StartedAt
      <4>3. Live(view'[o])
        BY <1>7, <2>2, <2>3 DEF Yielding, Live
      <4> QED BY <1>2, <4>2, <4>3 DEF Kept
    <3>2. view'[b].seal.gen < view'[o].seal.gen
      BY <1>5, <1>7, <2>1, <2>3 DEF Yielding, Generations
    <3> QED BY <1>2, <2>1, <3>1, <3>2 DEF Rests
  <2>4. CASE view'[o].seal # view[o].seal
    <3>1. view'[o].seal.gen < view[b].seal.gen
      BY <2>1, <2>2, <2>4 DEF BlankSeal, Seal, Blank, Torn, Generations
    <3> QED BY <1>2, <1>5, <2>1, <3>1 DEF Rests
  <2> QED BY <2>3, <2>4
<1>8. \E b \in BankIds : Elected(b)'
  BY <1>6, <1>7, TwoBanks DEF IInv, Elected
<1> QED BY <1>1, <1>4, <1>8 DEF IInv, TypeOK, ModeShape
-----------------------------------------------------------------------------
(* The theorems                                                            *)

LEMMA StepIInv ==
  ASSUME IInv, [Next]_vars
  PROVE  IInv'
<1>1. CASE \E b \in BankIds, faults \in [BankIds -> Faults] : Boot(b, faults)
  BY <1>1, BootStep
<1>2. CASE BeginStage \/ BeginSeal
  BY <1>2, BeginWriteStep
<1>3. CASE BeginBarrier \/ BeginCommit
  BY <1>3, BeginBarrierStep
<1>4. CASE Prepare \/ Stage
  BY <1>4, SwapWriteStep
<1>5. CASE PrepareBarrier \/ PayloadBarrier
  BY <1>5, SwapBarrierStep
<1>6. CASE Commit
  BY <1>6, CommitStep
<1>7. CASE CommitBarrier \/ ReclaimBarrier
  BY <1>7, CommitBarrierStep
<1>8. CASE Reclaim
  BY <1>8, ReclaimStep
<1>9. CASE Reset \/ UNCHANGED vars
  BY <1>9, ResetStep
<1>10. CASE PowerLoss
  BY <1>10, PowerLossStep
<1> QED BY <1>1, <1>2, <1>3, <1>4, <1>5, <1>6, <1>7, <1>8, <1>9, <1>10 DEF Next

LEMMA Inductive == Spec => []IInv
<1>1. Init => IInv
  BY InitIInv
<1>2. IInv /\ [Next]_vars => IInv'
  BY StepIInv
<1> QED BY <1>1, <1>2, PTL DEF Spec

\* Two banks keep their types, and no generation or run passes the last one.
THEOREM Typing == Spec => []TypeOK
<1>1. IInv => TypeOK
  BY DEF IInv
<1> QED BY <1>1, Inductive, PTL

\* However often the device fails and the power goes, one bank and no other is
\* there to run from.
THEOREM AlwaysOneAuthority == Spec => []OneAuthority
<1>1. IInv => OneAuthority
  BY ElectedIsChosen DEF IInv, OneAuthority
<1> QED BY <1>1, Inductive, PTL

\* No bad sector elects a bank that a sound device would not.
THEOREM NoFaultElects == Spec => []FaultsElectNoOther
<1>1. IInv => FaultsElectNoOther
  <2> SUFFICES ASSUME IInv, NEW b \in BankIds, NEW faults \in [BankIds -> Faults \ {"SealRead"}],
                      Preferred(ReadBank(view[b], faults[b]),
                                ReadBank(view[Other(b)], faults[Other(b)]))
               PROVE  Chosen(view, b)
    BY DEF FaultsElectNoOther
  <2>1. PICK e \in BankIds : Elected(e)
    BY DEF IInv
  <2>2. faults[b] \in Faults /\ faults[Other(b)] \in Faults
    BY TwoBanks
  <2>3. b = e
    BY <2>1, <2>2, ElectedIsPreferred DEF IInv
  <2> QED BY <2>1, <2>3, ElectedIsChosen DEF IInv
<1> QED BY <1>1, Inductive, PTL

\* The swap works for the bank that is authoritative until the seal, and
\* against it from then on.
THEOREM SwapFollows == Spec => []SwapFollowsAuthority
<1>1. ASSUME IInv PROVE SwapFollowsAuthority
  <2>1. TypeOK /\ booted \in BankIds /\ Other(booted) \in BankIds
    BY <1>1, TwoBanks DEF IInv, TypeOK
  <2>2. mode \in {"Begin", "BeginBarrier", "BeginSeal", "BeginCommit", "Running",
              "PrepareBarrier", "Stage", "PayloadBarrier", "Commit"} => Elected(booted)
    BY <1>1 DEF IInv, ModeShape, Elected
  <2>3. mode \in {"CommitBarrier", "Reclaim", "ReclaimBarrier"} => Elected(Other(booted))
    BY <1>1 DEF IInv, ModeShape, Elected
  <2> QED BY <2>1, <2>2, <2>3, ElectedIsChosen DEF SwapFollowsAuthority
<1> QED BY <1>1, Inductive, PTL

\* A run that was acknowledged as started is never lost to a crash.
THEOREM StartedRunsAreKept == Spec => []StartedRunsStay
<1>1. ASSUME IInv PROVE StartedRunsStay
  <2>1. PICK e \in BankIds : Elected(e)
    BY <1>1 DEF IInv
  <2>2. TypeOK /\ view[e] \in Banks /\ view[Other(e)] \in Banks /\ started \in Int
    BY <1>1, TwoBanks DEF IInv, TypeOK
  <2>3. \/ view[e].header > started
        \/ view[e].header = started /\ view[e].journal = Opened
    <3>1. CASE Rests(e)
      BY <2>2, <3>1, BankType DEF Rests, StartedAt
    <3>2. CASE Yielding(Other(e))
      BY <2>2, <3>2, TwoBanks, BankType DEF Yielding, StartedAt
    <3> QED BY <2>1, <3>1, <3>2 DEF Elected
  <2> QED BY <2>1, <2>2, <2>3, ElectedIsChosen, TwoBanks DEF StartedRunsStay
<1> QED BY <1>1, Inductive, PTL

\* Authority passes by the seal alone, and to the successor alone.
THEOREM Succession == Spec => AuthorityMovesBySuccession
<1>1. ASSUME IInv, [Next]_vars
      PROVE  [\A b \in BankIds :
               (Chosen(view, b) /\ ~Chosen(view', b) /\ ~PowerLoss) =>
                 /\ mode = "Commit"
                 /\ Chosen(view', Other(b))
                 /\ view'[Other(b)].seal.gen = view[b].seal.gen + 1
                 /\ view'[Other(b)].header = view[b].header + 1]_vars
  <2>1. SUFFICES ASSUME NEW b \in BankIds, Chosen(view, b), ~Chosen(view', b), ~PowerLoss
                 PROVE  /\ mode = "Commit"
                        /\ Chosen(view', Other(b))
                        /\ view'[Other(b)].seal.gen = view[b].seal.gen + 1
                        /\ view'[Other(b)].header = view[b].header + 1
    OBVIOUS
  <2>2. TypeOK' /\ \A e \in BankIds : Elected(e)' => Chosen(view', e)
    BY <1>1, StepIInv, ElectedIsChosenNext DEF IInv
  <2>3. ASSUME NEW e \in BankIds, Elected(e), Elected(e)' PROVE FALSE
    <3>1. b = e
      BY <1>1, <2>1, <2>3, ElectedIsChosen, TwoBanks DEF IInv
    <3>2. Chosen(view', e)
      BY <2>2, <2>3
    <3> QED BY <2>1, <3>1, <3>2
  <2>4. Commit
    <3>1. ASSUME NEW c \in BankIds, NEW faults \in [BankIds -> Faults], Boot(c, faults)
          PROVE  FALSE
      BY <1>1, <2>3, <3>1, BootStep
    <3>2. ~(BeginStage \/ BeginSeal)
      BY <1>1, <2>3, BeginWriteStep
    <3>3. ~(BeginBarrier \/ BeginCommit)
      BY <1>1, <2>3, BeginBarrierStep
    <3>4. ~(Prepare \/ Stage)
      BY <1>1, <2>3, SwapWriteStep
    <3>5. ~(PrepareBarrier \/ PayloadBarrier)
      BY <1>1, <2>3, SwapBarrierStep
    <3>6. ~(CommitBarrier \/ ReclaimBarrier)
      BY <1>1, <2>3, CommitBarrierStep
    <3>7. ~Reclaim
      BY <1>1, <2>3, ReclaimStep
    <3>8. ~(Reset \/ UNCHANGED vars)
      BY <1>1, <2>3, ResetStep
    <3> QED BY <1>1, <2>1, <3>1, <3>2, <3>3, <3>4, <3>5, <3>6, <3>7, <3>8 DEF Next
  <2>5. /\ mode = "Commit" /\ booted \in BankIds /\ Elected(booted)
        /\ Elected(booted)' \/ (Elected(Other(booted))' /\ Succeeds(booted))
        /\ booted' = booted
    BY <1>1, <2>4, CommitStep DEF IInv, TypeOK, Commit, Device
  <2>6. b = booted /\ Elected(Other(booted))' /\ Succeeds(booted)
    BY <1>1, <2>1, <2>3, <2>5, ElectedIsChosen, TwoBanks DEF IInv
  <2>7. Chosen(view', Other(b))
    BY <2>2, <2>5, <2>6, TwoBanks
  <2> QED BY <2>5, <2>6, <2>7 DEF Succeeds
<1> QED BY <1>1, Inductive, PTL DEF Spec, AuthorityMovesBySuccession
=============================================================================
