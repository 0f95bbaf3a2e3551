-------------------------- MODULE RetentionProofs --------------------------
(***************************************************************************)
(* Theorems about RetentionSystem, for any captures, sizes and quota.      *)
(*                                                                         *)
(* TotalBytes is a fold that takes the captures in an order of its own.    *)
(* The first part shows that the order does not matter: the sum over a     *)
(* finite set exists, is a number, splits off any element and grows with   *)
(* the set.  Each proof takes a smallest set for which the claim fails.    *)
(***************************************************************************)
EXTENDS RetentionSystem, FiniteSetTheorems, WellFoundedInduction, TLAPS

\* The capture the fold takes first.
First(S) == CHOOSE x \in S : TRUE

\* F gives the sums over the subsets of S.
SumsUp(F, S) ==
  F = [s \in SUBSET S |-> IF s = {} THEN 0 ELSE size[First(s)] + F[s \ {First(s)}]]

Sums(S) == CHOOSE F : SumsUp(F, S)

LEMMA TotalIsSum ==
  ASSUME NEW S
  PROVE  TotalBytes(S) = Sums(S)[S]
<1>1. TotalBytes(S) =
        (CHOOSE iter : iter = [s \in SUBSET S |->
           IF s = {} THEN 0 ELSE size[CHOOSE x \in s : TRUE]
                                   + iter[s \ {CHOOSE x \in s : TRUE}]])[S]
  BY Zenon DEF TotalBytes, MapThenSumSet, MapThenFoldSet
<1>2. QED
  BY <1>1, Zenon DEF Sums, SumsUp, First

\* A family of subsets of a finite set has a smallest member.
LEMMA SmallestSubset ==
  ASSUME NEW S, IsFiniteSet(S), NEW T \in SUBSET SUBSET S, T # {}
  PROVE  \E m \in T : \A s \in SUBSET m : s # m => s \notin T
<1>1. T \subseteq FiniteSubsetsOf(S)
  BY FS_FiniteSubsetsOfFinite
<1>2. PICK m \in T : \A s \in T : <<s, m>> \notin StrictSubsetOrdering(S)
  BY <1>1, FS_StrictSubsetOrderingWellFounded, WFMin
<1>3. ASSUME NEW s \in SUBSET m, s # m, s \in T PROVE FALSE
  BY <1>2, <1>3 DEF StrictSubsetOrdering
<1>4. QED
  BY <1>3

LEMMA SumsAgree ==
  ASSUME NEW S, NEW U, IsFiniteSet(U), U \subseteq S,
         NEW F, NEW G, SumsUp(F, S), SumsUp(G, U)
  PROVE  \A s \in SUBSET U : F[s] = G[s]
<1> DEFINE Bad == {s \in SUBSET U : F[s] # G[s]}
<1>1. SUFFICES ASSUME Bad # {} PROVE FALSE
  OBVIOUS
<1>2. PICK m \in Bad : \A s \in SUBSET m : s # m => s \notin Bad
  <2>1. Bad \in SUBSET SUBSET U
    OBVIOUS
  <2> HIDE DEF Bad
  <2>2. QED
    BY <1>1, <2>1, SmallestSubset
<1>3. /\ F[m] = IF m = {} THEN 0 ELSE size[First(m)] + F[m \ {First(m)}]
      /\ G[m] = IF m = {} THEN 0 ELSE size[First(m)] + G[m \ {First(m)}]
  BY <1>2 DEF SumsUp
<1>4. m # {}
  BY <1>2, <1>3
<1>5. First(m) \in m
  BY <1>4 DEF First
<1>6. F[m \ {First(m)}] = G[m \ {First(m)}]
  BY <1>2, <1>5
<1>7. QED
  BY <1>2, <1>3, <1>6

LEMMA SumsExist ==
  ASSUME NEW S, IsFiniteSet(S)
  PROVE  SumsUp(Sums(S), S)
<1> DEFINE Bad == {s \in SUBSET S : ~SumsUp(Sums(s), s)}
<1>1. SUFFICES ASSUME Bad # {} PROVE FALSE
  OBVIOUS
<1>2. PICK m \in Bad : \A s \in SUBSET m : s # m => s \notin Bad
  <2>1. Bad \in SUBSET SUBSET S
    OBVIOUS
  <2> HIDE DEF Bad
  <2>2. QED
    BY <1>1, <2>1, SmallestSubset
<1>3. \A s \in SUBSET m : s # m => SumsUp(Sums(s), s)
  BY <1>2
<1> DEFINE Rest(s) == s \ {First(s)}
           F == [s \in SUBSET m |-> IF s = {} THEN 0
                                    ELSE size[First(s)] + Sums(Rest(s))[Rest(s)]]
<1>4. ASSUME NEW s \in SUBSET m, s # m PROVE F[s] = Sums(s)[s]
  <2>1. Sums(s)[s] = IF s = {} THEN 0 ELSE size[First(s)] + Sums(s)[Rest(s)]
    BY <1>3, <1>4 DEF SumsUp
  <2>2. Sums(Rest(s))[Rest(s)] = Sums(s)[Rest(s)]
    <3>1. Rest(s) \in SUBSET m /\ Rest(s) # m /\ Rest(s) \subseteq s
      BY <1>4
    <3>2. SumsUp(Sums(s), s) /\ SumsUp(Sums(Rest(s)), Rest(s))
      BY <1>3, <1>4, <3>1
    <3>3. IsFiniteSet(Rest(s))
      BY <3>1, <1>2, FS_Subset
    <3>4. QED
      BY <3>1, <3>2, <3>3, SumsAgree
  <2>3. QED
    BY <2>1, <2>2
<1>5. \A s \in SUBSET m : s # {} => Rest(s) \in SUBSET m /\ Rest(s) # m
  BY DEF First
<1>6. SumsUp(F, m)
  <2>1. ASSUME NEW s \in SUBSET m, s # {}
        PROVE  Sums(Rest(s))[Rest(s)] = F[Rest(s)]
    BY <1>4, <1>5, <2>1
  <2>2. F = [s \in SUBSET m |-> IF s = {} THEN 0 ELSE size[First(s)] + F[Rest(s)]]
    BY <2>1
  <2>3. QED
    BY <2>2 DEF SumsUp
<1>7. SumsUp(Sums(m), m)
  BY <1>6 DEF Sums
<1>8. QED
  BY <1>2, <1>7

\* The definition of the sum, without the fold.
LEMMA TotalUnfolds ==
  ASSUME NEW S, IsFiniteSet(S)
  PROVE  /\ TotalBytes({}) = 0
         /\ S # {} => /\ First(S) \in S
                     /\ TotalBytes(S) = size[First(S)] + TotalBytes(S \ {First(S)})
<1>1. TotalBytes({}) = 0
  <2>1. SumsUp(Sums({}), {})
    BY FS_EmptySet, SumsExist
  <2>2. QED
    BY <2>1, TotalIsSum DEF SumsUp
<1>2. ASSUME S # {}
      PROVE  /\ First(S) \in S
             /\ TotalBytes(S) = size[First(S)] + TotalBytes(S \ {First(S)})
  <2>1. First(S) \in S
    BY <1>2 DEF First
  <2> DEFINE R == S \ {First(S)}
  <2>2. IsFiniteSet(R) /\ R \subseteq S
    BY FS_Subset
  <2>3. SumsUp(Sums(S), S) /\ SumsUp(Sums(R), R)
    BY <2>2, SumsExist
  <2>4. Sums(S)[R] = Sums(R)[R]
    BY SMTT(60), <2>2, <2>3, SumsAgree
  <2>5. Sums(S)[S] = size[First(S)] + Sums(S)[R]
    BY <1>2, <2>3 DEF SumsUp
  <2>6. QED
    BY <2>1, <2>4, <2>5, TotalIsSum
<1>3. QED
  BY <1>1, <1>2

SizesKnown(S) == IsFiniteSet(S) /\ \A f \in S : size[f] \in Nat

LEMMA TotalIsNat ==
  ASSUME NEW S, SizesKnown(S)
  PROVE  TotalBytes(S) \in Nat
<1> DEFINE Bad == {s \in SUBSET S : TotalBytes(s) \notin Nat}
<1>1. SUFFICES ASSUME Bad # {} PROVE FALSE
  OBVIOUS
<1>2. PICK m \in Bad : \A s \in SUBSET m : s # m => s \notin Bad
  <2>1. Bad \in SUBSET SUBSET S
    OBVIOUS
  <2> HIDE DEF Bad
  <2>2. QED
    BY <1>1, <2>1, SmallestSubset DEF SizesKnown
<1>3. m \in SUBSET S /\ TotalBytes(m) \notin Nat /\ IsFiniteSet(m)
  BY <1>2, FS_Subset DEF SizesKnown
<1>4. m # {}
  <2>1. TotalBytes({}) \in Nat
    BY FS_EmptySet, TotalUnfolds
  <2>2. QED
    BY <1>3, <2>1
<1>5. First(m) \in m /\ TotalBytes(m) = size[First(m)] + TotalBytes(m \ {First(m)})
  BY <1>3, <1>4, TotalUnfolds
<1>6. TotalBytes(m \ {First(m)}) \in Nat
  BY <1>2, <1>3, <1>5
<1>7. QED
  BY <1>3, <1>5, <1>6 DEF SizesKnown

\* Any element can be taken first.
LEMMA TotalSplits ==
  ASSUME NEW S, SizesKnown(S)
  PROVE  \A x \in S : TotalBytes(S) = size[x] + TotalBytes(S \ {x})
<1> DEFINE Splits(s) == \A x \in s : TotalBytes(s) = size[x] + TotalBytes(s \ {x})
           Bad == {s \in SUBSET S : ~Splits(s)}
<1>1. SUFFICES ASSUME Bad # {} PROVE FALSE
  OBVIOUS
<1>2. PICK m \in Bad : \A s \in SUBSET m : s # m => s \notin Bad
  <2>1. Bad \in SUBSET SUBSET S
    OBVIOUS
  <2> HIDE DEF Bad
  <2>2. QED
    BY <1>1, <2>1, SmallestSubset DEF SizesKnown
<1>3. m \in SUBSET S /\ IsFiniteSet(m)
  BY <1>2, FS_Subset DEF SizesKnown
<1>4. PICK x \in m : TotalBytes(m) # size[x] + TotalBytes(m \ {x})
  BY <1>2
<1> DEFINE c == First(m)
           R == m \ {x, c}
<1>5. c \in m /\ TotalBytes(m) = size[c] + TotalBytes(m \ {c})
  BY <1>3, <1>4, TotalUnfolds
<1>6. x # c
  BY <1>4, <1>5
<1>7. Splits(m \ {c}) /\ Splits(m \ {x})
  BY <1>2, <1>3, <1>4, <1>5
<1>8. TotalBytes(m \ {c}) = size[x] + TotalBytes(R)
  <2>1. x \in m \ {c} /\ (m \ {c}) \ {x} = R
    BY <1>4, <1>6
  <2>2. QED
    BY <1>7, <2>1
<1>9. TotalBytes(m \ {x}) = size[c] + TotalBytes(R)
  <2>1. c \in m \ {x} /\ (m \ {x}) \ {c} = R
    BY <1>5, <1>6
  <2>2. QED
    BY <1>7, <2>1
<1>10. TotalBytes(R) \in Nat /\ size[x] \in Nat /\ size[c] \in Nat
  <2>1. SizesKnown(R)
    BY <1>3, FS_Subset DEF SizesKnown
  <2>2. QED
    BY <1>3, <1>4, <1>5, <2>1, TotalIsNat DEF SizesKnown
<1> HIDE DEF c, R
<1>11. QED
  BY <1>4, <1>5, <1>8, <1>9, <1>10

\* More captures take no less room.
LEMMA TotalGrows ==
  ASSUME NEW S, NEW A \in SUBSET S, SizesKnown(S)
  PROVE  TotalBytes(A) <= TotalBytes(S)
<1> DEFINE Bad == {s \in SUBSET S : A \subseteq s /\ ~(TotalBytes(A) <= TotalBytes(s))}
<1>1. SUFFICES ASSUME Bad # {} PROVE FALSE
  OBVIOUS
<1>2. PICK m \in Bad : \A s \in SUBSET m : s # m => s \notin Bad
  <2>1. Bad \in SUBSET SUBSET S
    OBVIOUS
  <2> HIDE DEF Bad
  <2>2. QED
    BY <1>1, <2>1, SmallestSubset DEF SizesKnown
<1>3. /\ A \subseteq m /\ ~(TotalBytes(A) <= TotalBytes(m))
      /\ SizesKnown(m) /\ SizesKnown(A)
  BY <1>2, FS_Subset DEF SizesKnown
<1>4. TotalBytes(A) \in Nat
  BY <1>3, TotalIsNat
<1>5. PICK x \in m : x \notin A
  BY <1>3, <1>4
<1>6. TotalBytes(A) <= TotalBytes(m \ {x})
  BY <1>2, <1>3, <1>5
<1>7. TotalBytes(m) = size[x] + TotalBytes(m \ {x})
  BY <1>3, <1>5, TotalSplits
<1>8. TotalBytes(m \ {x}) \in Nat /\ size[x] \in Nat
  <2>1. SizesKnown(m \ {x})
    BY <1>3, FS_Subset DEF SizesKnown
  <2>2. QED
    BY <1>3, <1>5, <2>1, TotalIsNat DEF SizesKnown
<1>9. QED
  BY <1>3, <1>4, <1>6, <1>7, <1>8

\* A finite set of captures has an oldest one.
LEMMA OldestExists ==
  ASSUME NEW S \in SUBSET Nat, IsFiniteSet(S), S # {}
  PROVE  \E f : Oldest(f, S)
<1> DEFINE Bad == {s \in SUBSET S : s # {} /\ ~\E f \in s : \A g \in s : f <= g}
<1>1. SUFFICES ASSUME Bad # {} PROVE FALSE
  BY DEF Oldest
<1>2. PICK m \in Bad : \A s \in SUBSET m : s # m => s \notin Bad
  <2>1. Bad \in SUBSET SUBSET S
    OBVIOUS
  <2> HIDE DEF Bad
  <2>2. QED
    BY <1>1, <2>1, SmallestSubset
<1>3. PICK x \in m : TRUE
  BY <1>2
<1>4. m \ {x} # {}
  BY <1>2, <1>3
<1>5. PICK y \in m \ {x} : \A g \in m \ {x} : y <= g
  BY <1>2, <1>3, <1>4
<1>6. m \subseteq Nat
  BY <1>2
<1>7. CASE x <= y
  <2>1. \A g \in m : x <= g
    BY <1>3, <1>5, <1>6, <1>7
  <2>2. QED
    BY <1>2, <1>3, <2>1
<1>8. CASE y <= x
  <2>1. \A g \in m : y <= g
    BY <1>3, <1>5, <1>6, <1>8
  <2>2. QED
    BY <1>2, <1>5, <2>1
<1>9. QED
  BY <1>3, <1>5, <1>6, <1>7, <1>8

-----------------------------------------------------------------------------
(***************************************************************************)
(* The invariants.                                                         *)
(***************************************************************************)

\* What the maintenance thread still lists is on disk, whatever is published
\* meanwhile: nobody else deletes.
ListingInv ==
  /\ mpc \in {"scan", "delete"} => listing \subseteq OnDisk
  /\ overdue \subseteq aged

RetentionInv ==
  /\ SystemTypeOK
  /\ IsFiniteSet(published)
  /\ ListingInv
  /\ RunEstablishesQuota

LEMMA ListKnown ==
  ASSUME RetentionInv, NEW S \in SUBSET published
  PROVE  SizesKnown(S) /\ S \in SUBSET Nat
  BY FS_Subset, RetentionAssumption DEF RetentionInv, SystemTypeOK, TypeOK, SizesKnown

LEMMA RetentionInit == SystemInit => RetentionInv
<1> SUFFICES ASSUME SystemInit PROVE RetentionInv
  OBVIOUS
<1> USE DEF SystemInit, Init, MaintenanceInit
<1>1. SystemTypeOK
  BY DEF SystemTypeOK, TypeOK
<1>2. IsFiniteSet(published)
  BY FS_EmptySet
<1>3. ListingInv /\ RunEstablishesQuota
  BY DEF ListingInv, RunEstablishesQuota
<1>4. QED
  BY <1>1, <1>2, <1>3 DEF RetentionInv

\* The sum is a function of the sizes and the list alone.
SumOf(w, S) ==
  (CHOOSE iter : iter = [s \in SUBSET S |->
     IF s = {} THEN 0 ELSE w[CHOOSE x \in s : TRUE] + iter[s \ {CHOOSE x \in s : TRUE}]])[S]

LEMMA TotalKept ==
  ASSUME size' = size, listing' = listing
  PROVE  TotalBytes(listing)' = TotalBytes(listing)
<1>1. TotalBytes(listing) = SumOf(size, listing)
  BY Zenon DEF TotalBytes, MapThenSumSet, MapThenFoldSet, SumOf
<1>2. TotalBytes(listing)' = SumOf(size', listing')
  BY Zenon DEF TotalBytes, MapThenSumSet, MapThenFoldSet, SumOf
<1>3. QED
  BY <1>1, <1>2

\* A list of which nothing is doomed is within the quota.
LEMMA NothingDoomed ==
  ASSUME RetentionInv, \A f \in listing : ~Doomed(f)
  PROVE  TotalBytes(listing) <= MaxTotal /\ listing \cap overdue = {}
<1>1. listing \in SUBSET published
  BY DEF RetentionInv, SystemTypeOK, TypeOK
<1>2. SizesKnown(listing) /\ listing \in SUBSET Nat
  BY <1>1, ListKnown
<1>3. listing \cap overdue = {}
  <2>1. ASSUME listing \cap overdue # {} PROVE FALSE
    <3>1. IsFiniteSet(listing \cap overdue)
      BY <1>2, FS_Subset DEF SizesKnown
    <3>2. PICK f : Oldest(f, listing \cap overdue)
      BY <1>2, <2>1, <3>1, OldestExists
    <3>3. QED
      BY <3>2 DEF Doomed, Oldest
  <2>2. QED
    BY <2>1
<1>4. TotalBytes(listing) <= MaxTotal
  <2>1. TotalBytes(listing) \in Nat
    BY <1>2, TotalIsNat
  <2>2. ASSUME TotalBytes(listing) > MaxTotal PROVE FALSE
    <3>1. listing # {}
      <4>1. TotalBytes({}) = 0
        BY FS_EmptySet, TotalUnfolds
      <4>2. QED
        BY <2>2, <4>1, RetentionAssumption
    <3>2. PICK f : Oldest(f, listing)
      BY <1>2, <3>1, OldestExists DEF SizesKnown
    <3>3. QED
      BY <1>3, <2>2, <3>2 DEF Doomed, Oldest
  <2>3. QED
    BY <2>1, <2>2, RetentionAssumption
<1>5. QED
  BY <1>3, <1>4

LEMMA RetentionTypeStep ==
  ASSUME RetentionInv, [SystemNext]_systemVars
  PROVE  SystemTypeOK' /\ IsFiniteSet(published)'
<1> USE DEF RetentionInv, SystemTypeOK, TypeOK, vars, disk, scheduler, request, run
<1>1. CASE Publish
  <2>1. PICK f \in Captures : published' = published \cup {f} /\ reporting' = {f}
    BY <1>1 DEF Publish
  <2>2. IsFiniteSet(published')
    BY <2>1, FS_AddElement
  <2>3. QED
    BY <1>1, <2>1, <2>2 DEF Publish
<1>2. CASE Report \/ Close
  <2>1. CASE Report
    <3>1. committed_captures' \in Nat /\ maintenance_requested' \in BOOLEAN
      BY <2>1 DEF Report, ScheduleRetention
    <3>2. QED
      BY <2>1, <3>1 DEF Report, ScheduleRetention
  <2>2. CASE Close
    BY <2>2 DEF Close, StopMaintenance
  <2>3. QED
    BY <1>2, <2>1, <2>2
<1>3. CASE MaintenanceBegin /\ UNCHANGED reporting
  BY <1>3 DEF MaintenanceBegin, OnDisk
<1>4. CASE (ScanEnd \/ ScanFails) /\ UNCHANGED reporting
  BY <1>4 DEF ScanEnd, ScanFails, Abort, Listable, OnDisk
<1>5. ASSUME NEW f \in Captures, DeleteCapture(f), UNCHANGED reporting
      PROVE  SystemTypeOK' /\ IsFiniteSet(published)'
  <2>1. f \in listing
    BY <1>5 DEF DeleteCapture, Doomed, Oldest
  <2>2. QED
    BY <1>5, <2>1 DEF DeleteCapture, Abort
<1>6. CASE (DeleteEnd \/ MaintenanceRecord \/ MaintenanceExit) /\ UNCHANGED reporting
  <2>1. CASE DeleteEnd \/ MaintenanceExit
    BY <1>6, <2>1 DEF DeleteEnd, MaintenanceExit
  <2>2. CASE MaintenanceRecord
    <3>1. warnings' \in SUBSET {"log_sink_failed", "image_save_failed"}
      BY <2>2 DEF MaintenanceRecord
    <3>2. QED
      BY <1>6, <2>2, <3>1 DEF MaintenanceRecord
  <2>3. QED
    BY <1>6, <2>1, <2>2
<1>7. CASE ClockNext /\ UNCHANGED reporting
  BY <1>7 DEF ClockNext, IntervalPasses, CaptureAges, Oldest
<1>8. CASE UNCHANGED systemVars
  BY <1>8 DEF systemVars
<1>9. QED
  BY <1>1, <1>2, <1>3, <1>4, <1>5, <1>6, <1>7, <1>8 DEF SystemNext, MaintenanceNext

LEMMA ListingStep ==
  ASSUME RetentionInv, [SystemNext]_systemVars
  PROVE  ListingInv'
<1> USE DEF RetentionInv, ListingInv, OnDisk, vars, disk, scheduler, request, run
<1>1. CASE Publish \/ Report \/ Close
  BY <1>1 DEF Publish, Report, ScheduleRetention, Close, StopMaintenance
<1>2. CASE MaintenanceBegin
  BY <1>2 DEF MaintenanceBegin
<1>3. CASE ScanEnd \/ ScanFails
  BY <1>3 DEF ScanEnd, ScanFails, Abort, Listable
<1>4. ASSUME NEW f \in Captures, DeleteCapture(f) PROVE ListingInv'
  BY <1>4 DEF DeleteCapture, Abort
<1>5. CASE DeleteEnd \/ MaintenanceRecord \/ MaintenanceExit
  BY <1>5 DEF DeleteEnd, MaintenanceRecord, MaintenanceExit
<1>6. CASE ClockNext
  BY <1>6 DEF ClockNext, IntervalPasses, CaptureAges
<1>7. CASE UNCHANGED systemVars
  BY <1>7 DEF systemVars
<1>8. QED
  BY <1>1, <1>2, <1>3, <1>4, <1>5, <1>6, <1>7 DEF SystemNext, MaintenanceNext

LEMMA QuotaStep ==
  ASSUME RetentionInv, [SystemNext]_systemVars
  PROVE  RunEstablishesQuota'
<1> USE DEF RetentionInv, RunEstablishesQuota, vars, disk, scheduler, request, run
<1>1. CASE UNCHANGED <<mpc, failed, size, listing, overdue>>
  <2>1. TotalBytes(listing)' = TotalBytes(listing)
    BY <1>1, TotalKept
  <2>2. QED
    BY <1>1, <2>1
<1>2. CASE DeleteEnd
  <2>1. UNCHANGED <<size, listing, overdue>>
    BY <1>2 DEF DeleteEnd
  <2>2. TotalBytes(listing)' = TotalBytes(listing)
    BY <2>1, TotalKept
  <2>3. TotalBytes(listing) <= MaxTotal /\ listing \cap overdue = {}
    BY <1>2, NothingDoomed DEF DeleteEnd
  <2>4. QED
    BY <2>1, <2>2, <2>3
<1>3. CASE MaintenanceBegin \/ ScanEnd \/ ScanFails \/ MaintenanceRecord \/ MaintenanceExit
  BY <1>3 DEF MaintenanceBegin, ScanEnd, ScanFails, Abort, MaintenanceRecord, MaintenanceExit
<1>4. ASSUME NEW f \in Captures, DeleteCapture(f) PROVE RunEstablishesQuota'
  BY <1>4 DEF DeleteCapture, Abort
<1>5. CASE Publish \/ Report \/ Close \/ ClockNext \/ UNCHANGED systemVars
  BY <1>1, <1>5 DEF Publish, Report, ScheduleRetention, Close, StopMaintenance, ClockNext,
     IntervalPasses, CaptureAges, systemVars
<1>6. QED
  BY <1>2, <1>3, <1>4, <1>5 DEF SystemNext, MaintenanceNext

LEMMA RetentionInvariance == SystemSpec => []RetentionInv
<1>1. RetentionInv /\ [SystemNext]_systemVars => RetentionInv'
  <2>1. SUFFICES ASSUME RetentionInv, [SystemNext]_systemVars PROVE RetentionInv'
    OBVIOUS
  <2>2. QED
    BY <2>1, RetentionTypeStep, ListingStep, QuotaStep DEF RetentionInv
<1>2. QED
  BY <1>1, RetentionInit, PTL DEF SystemSpec

\* Every variable of RetentionSystem keeps its type, for any captures, sizes,
\* trigger and quota.
THEOREM RetentionTypes == SystemSpec => []SystemTypeOK
<1>1. RetentionInv => SystemTypeOK
  BY DEF RetentionInv
<1>2. QED
  BY <1>1, RetentionInvariance, PTL

\* A run of enforce_retention that ends without an error leaves what it listed
\* within the quota and without an overdue capture.
THEOREM QuotaIsEstablished == SystemSpec => []RunEstablishesQuota
<1>1. RetentionInv => RunEstablishesQuota
  BY DEF RetentionInv
<1>2. QED
  BY <1>1, RetentionInvariance, PTL

\* A capture within max_age is only deleted when it and the newer ones on disk
\* exceed the quota together, even if they were published during the run.
THEOREM DeletesOnlyAsNeeded == SystemSpec => NoNeedlessDeletion
<1> DEFINE Needed == \A f \in removed' \ removed :
             f \in aged \/ TotalBytes({g \in OnDisk : g >= f}) > MaxTotal
<1>1. RetentionInv /\ [SystemNext]_systemVars => [Needed]_systemVars
  <2>1. SUFFICES ASSUME RetentionInv, SystemNext PROVE Needed
    OBVIOUS
  <2>2. CASE removed' = removed
    BY <2>2
  <2>3. ASSUME NEW f \in Captures, DeleteCapture(f) PROVE Needed
    <3>1. removed' \subseteq removed \cup {f}
      BY <2>3 DEF DeleteCapture, Abort
    <3>2. listing \subseteq OnDisk /\ overdue \subseteq aged
      BY <2>1, <2>3 DEF DeleteCapture, RetentionInv, ListingInv
    <3>3. f \in overdue \/ (Oldest(f, listing) /\ TotalBytes(listing) > MaxTotal)
      BY <2>3 DEF DeleteCapture, Doomed, Oldest
    <3>4. ASSUME Oldest(f, listing), TotalBytes(listing) > MaxTotal
          PROVE  TotalBytes({g \in OnDisk : g >= f}) > MaxTotal
      <4> DEFINE Newer == {g \in OnDisk : g >= f}
      <4>1. Newer \in SUBSET published
        BY DEF OnDisk
      <4>2. SizesKnown(Newer) /\ published \in SUBSET Nat
        BY <2>1, <4>1, ListKnown
      <4>3. listing \in SUBSET Newer
        BY <3>2, <3>4, <4>2 DEF Oldest, OnDisk
      <4>4. TotalBytes(listing) <= TotalBytes(Newer)
        BY <4>2, <4>3, TotalGrows
      <4>5. TotalBytes(listing) \in Nat /\ TotalBytes(Newer) \in Nat
        <5>1. SizesKnown(listing)
          BY <4>2, <4>3, FS_Subset DEF SizesKnown
        <5>2. QED
          BY <4>2, <5>1, TotalIsNat
      <4> HIDE DEF Newer
      <4>6. TotalBytes(Newer) > MaxTotal
        BY <3>4, <4>4, <4>5, RetentionAssumption
      <4>7. QED
        BY <4>6 DEF Newer
    <3>5. QED
      BY <3>1, <3>2, <3>3, <3>4
  <2>4. CASE ~\E f \in Captures : DeleteCapture(f)
    <3>1. removed' = removed
      BY <2>1, <2>4 DEF SystemNext, MaintenanceNext, ClockNext, Publish, Report,
         ScheduleRetention, Close, StopMaintenance, MaintenanceBegin, ScanEnd, ScanFails,
         Abort, DeleteEnd, MaintenanceRecord, MaintenanceExit, IntervalPasses, CaptureAges, run
    <3>2. QED
      BY <3>1
  <2>5. QED
    BY <2>3, <2>4
<1>2. QED
  BY <1>1, RetentionInvariance, PTL DEF SystemSpec, NoNeedlessDeletion
=============================================================================
