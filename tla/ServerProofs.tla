----------------------------- MODULE ServerProofs -----------------------------
(***************************************************************************)
(* What holds of the process of cmd/server, for any number of clients,      *)
(* tokens, requests and plates and any capacity, refill and lifetime:       *)
(* start-up that is broken off anywhere, buckets filled from a clock that   *)
(* is set back and forward, and requests that race with the logout of their session.    *)
(***************************************************************************)
EXTENDS Server, FiniteSetTheorems, TLAPS

-----------------------------------------------------------------------------
(* Start-up *)

\* The plates that migration 2 makes are plates, and none is a legacy one.
LEMMA NormalizedPlates ==
    \A p \in Plates : /\ Normalized(p) \in Plates
                      /\ Normalized(p) \notin Legacy
                      /\ p \notin Legacy => Normalized(p) = p
BY ModernIsDemo, PlatesDiffer DEF Plates, Normalized

\* The plates that have been normalized.
LEMMA MigratedPlates ==
    ASSUME NEW vehicles \in SUBSET Plates
    PROVE  LET image == {Normalized(p) : p \in vehicles}
           IN  image \in SUBSET Plates /\ image \cap Legacy = {}
BY NormalizedPlates

\* The row of migration 2 and its plates, in one transaction.
LEMMA DatabaseWritten ==
    ASSUME NEW d \in Databases, NEW fleet \in SUBSET Plates
    PROVE  [d EXCEPT !.version = 2, !.vehicles = fleet] \in Databases
<1>1. [d EXCEPT !.version = 2] \in Databases
    BY DEF Databases
<1>2. \A e \in Databases : [e EXCEPT !.vehicles = fleet] \in Databases
    BY DEF Databases
<1>3. [d EXCEPT !.version = 2, !.vehicles = fleet]
          = [[d EXCEPT !.version = 2] EXCEPT !.vehicles = fleet]
    BY DEF Databases
<1>4. QED
    BY <1>1, <1>2, <1>3

\* What one start leaves for the next: a certification has its driver, the
\* record of migration 2 is true, and each statement is reached from the ones
\* before it.
LeftByStatements ==
    /\ db.certs > 0 => db.driver
    /\ phase = "first_cert" => db.driver /\ db.certs = 0
    /\ phase = "second_cert" => db.driver /\ db.certs = 1
    /\ phase \notin {"down", "record_1", "migrate_2"} => db.version = 2
    /\ phase = "second_vehicle" => db.vehicles = {FirstDemo}
    /\ db.version = 2 => db.vehicles \cap Legacy = {}

StartupInv == StartupTypeOK /\ LeftByStatements

\* The first start finds a database that satisfies the invariant.
LEMMA StartupBegins ==
    ASSUME StartupInit
    PROVE  StartupInv
<1>1. PICK found \in Found : db = found
    BY DEF StartupInit
<1>2. QED
    BY <1>1, FoundAreLeftovers, MaxStopsIsNat
       DEF StartupInit, StartupInv, StartupTypeOK, LeftByStatements, Databases,
           Phases

\* Every statement of start-up, and every stop between two, keeps it.
LEMMA StartupKeeps ==
    ASSUME StartupInv, [StartupStep \/ ListenFails \/ StopProcess]_startupVars
    PROVE  StartupInv'
<1> USE DEF StartupInv, StartupTypeOK, LeftByStatements, Databases, Continue
<1>1. CASE ApplySchema
    BY <1>1 DEF ApplySchema, Phases
<1>2. CASE RecordVersion1
    BY <1>2 DEF RecordVersion1, Phases
<1>3. CASE Migrate2
    <2>1. CASE db.version < 2 /\ Collides(db.vehicles)
        BY <1>3, <2>1 DEF Migrate2, Fail, Phases
    <2>2. CASE db.version < 2 /\ ~Collides(db.vehicles)
        <3> DEFINE image == {Normalized(p) : p \in db.vehicles}
        <3>1. image \in SUBSET Plates /\ image \cap Legacy = {}
            BY MigratedPlates
        <3>2. /\ phase = "migrate_2" /\ phase' = "vehicles"
              /\ db' = [db EXCEPT !.version = 2, !.vehicles = image]
              /\ stops' = stops
            BY <1>3, <2>2 DEF Migrate2, Migrated
        <3> HIDE DEF image
        <3>3. /\ db'.version = 2 /\ db'.vehicles = image
              /\ db'.certs = db.certs
            BY <3>2
        <3>4. db' \in Databases
            BY <3>1, <3>2, DatabaseWritten
        <3>5. db.certs > 0 => db'.driver
            <4>1. db'.driver = db.driver
                BY <3>2, Zenon
            <4>2. QED
                BY <4>1
        <3>6. QED
            BY <3>1, <3>2, <3>3, <3>4, <3>5 DEF Phases
    <2>3. CASE ~(db.version < 2)
        BY <1>3, <2>3 DEF Migrate2, Migrated, Phases
    <2>4. QED
        BY <2>1, <2>2, <2>3
<1>4. CASE SeedVehicles
    <2>1. FirstDemo \in Demo
        BY DemoIsKnown DEF FirstDemo
    <2>2. QED
        BY <1>4, <2>1, PlatesDiffer
           DEF SeedVehicles, FleetEmpty, InsertVehicle, Fail, Phases, Plates
<1>5. CASE SeedSecondVehicle
    <2>1. PICK p \in Demo \ {FirstDemo} : InsertVehicle(p, "route")
        BY <1>5 DEF SeedSecondVehicle
    <2>2. QED
        BY <1>5, <2>1, PlatesDiffer
           DEF SeedSecondVehicle, InsertVehicle, Fail, Phases, Plates
<1>6. CASE SeedRoute
    BY <1>6 DEF SeedRoute, Phases
<1>7. CASE SeedDriver
    <2>1. CASE db.driver
        BY <1>7, <2>1 DEF SeedDriver, Phases
    <2>2. CASE ~db.driver
        <3>1. /\ phase = "driver" /\ phase' = "first_cert"
              /\ db' = [db EXCEPT !.driver = TRUE] /\ stops' = stops
            BY <1>7, <2>2 DEF SeedDriver
        <3>2. /\ db'.version = db.version /\ db'.vehicles = db.vehicles
              /\ db'.certs = db.certs /\ db' \in Databases
            BY <3>1
        <3>3. db'.driver
            BY <3>1
        <3>4. db.certs = 0
            BY <2>2
        <3>5. LeftByStatements'
            BY <3>1, <3>2, <3>3, <3>4
        <3>6. StartupTypeOK'
            BY <3>1, <3>2 DEF Phases
        <3>7. QED
            BY <3>5, <3>6
    <2>3. QED
        BY <2>1, <2>2
<1>8. CASE SeedCertification
    BY <1>8 DEF SeedCertification, Phases
<1>9. CASE Bootstrap \/ Listen \/ ListenFails
    BY <1>9 DEF Bootstrap, Listen, ListenFails, Phases
<1>10. CASE StopProcess
    BY <1>10, MaxStopsIsNat DEF StopProcess, Phases
<1>11. CASE UNCHANGED startupVars
    BY <1>11 DEF startupVars
<1>12. QED
    BY <1>1, <1>2, <1>3, <1>4, <1>5, <1>6, <1>7, <1>8, <1>9, <1>10, <1>11
       DEF StartupStep

\* As many plates as before: migration 2 merges none where none collide.
LEMMA NoneMerged ==
    ASSUME NEW vehicles \in SUBSET Plates, ~Collides(vehicles)
    PROVE  Cardinality({Normalized(p) : p \in vehicles})
               = Cardinality(vehicles)
<1> DEFINE image == {Normalized(p) : p \in vehicles}
<1> DEFINE f == [p \in vehicles |-> Normalized(p)]
<1>1. IsFiniteSet(vehicles)
    BY FleetIsFinite, FS_Subset DEF Plates
<1>2. f \in [vehicles -> image]
    OBVIOUS
<1>3. \A p, q \in vehicles : f[p] = f[q] => p = q
    BY DEF Collides
<1>4. \A y \in image : \E p \in vehicles : f[p] = y
    OBVIOUS
<1> HIDE DEF f, image
<1>5. f \in Bijection(vehicles, image)
    <2>1. IsInjective(f)
        BY <1>2, <1>3 DEF IsInjective
    <2>2. QED
        BY <1>2, <1>4, <2>1 DEF Bijection, Injection, Surjection
<1>6. ExistsBijection(vehicles, image)
    BY <1>5 DEF ExistsBijection
<1>7. Cardinality(image) = Cardinality(vehicles)
    BY <1>1, <1>6, FS_Bijection
<1>8. QED
    BY <1>7 DEF image

\* No vehicle lost, none merged, none added to a fleet that clients have begun.
FleetStep ==
    /\ \A p \in db.vehicles :
          p \in db'.vehicles \/ Normalized(p) \in db'.vehicles
    /\ Cardinality(db'.vehicles) >= Cardinality(db.vehicles)
    /\ Cardinality(db'.vehicles) > Cardinality(db.vehicles) =>
           db.vehicles \subseteq Demo

\* No statement of start-up, and no stop, breaks FleetStep.
LEMMA FleetKept ==
    ASSUME StartupInv, StartupStep \/ ListenFails \/ StopProcess
    PROVE  FleetStep
<1> USE DEF StartupInv, StartupTypeOK, LeftByStatements, Databases, Continue
<1>0. IsFiniteSet(db.vehicles) /\ Cardinality(db.vehicles) \in Nat
    BY FleetIsFinite, FS_Subset, FS_CardinalityType DEF Plates
<1>1. ASSUME db'.vehicles = db.vehicles
      PROVE  FleetStep
    BY <1>0, <1>1 DEF FleetStep
<1>2. ASSUME NEW p \in Demo, NEW at, InsertVehicle(p, at),
             db.vehicles \subseteq Demo
      PROVE  FleetStep
    <2>1. CASE p \in db.vehicles
        BY <1>1, <1>2, <2>1 DEF InsertVehicle, Fail
    <2>2. CASE p \notin db.vehicles
        <3> PICK fleet : fleet = db.vehicles
            OBVIOUS
        <3>1. db'.vehicles = db.vehicles \cup {p}
            BY <1>2, <2>2 DEF InsertVehicle
        <3>2. Cardinality(fleet \cup {p}) = Cardinality(fleet) + 1
            BY <1>0, <2>2, FS_AddElement
        <3>3. QED
            BY <1>0, <1>2, <3>1, <3>2 DEF FleetStep
    <2>3. QED
        BY <2>1, <2>2
<1>3. CASE Migrate2
    <2>1. CASE db.version < 2 /\ ~Collides(db.vehicles)
        <3> DEFINE image == {Normalized(p) : p \in db.vehicles}
        <3>1. Cardinality(image) = Cardinality(db.vehicles)
            BY <2>1, NoneMerged
        <3>2. db'.vehicles = image
            BY <1>3, <2>1 DEF Migrate2, Migrated
        <3>3. \A p \in db.vehicles : Normalized(p) \in db'.vehicles
            BY <3>2
        <3> HIDE DEF image
        <3>4. QED
            BY <1>0, <3>1, <3>2, <3>3 DEF FleetStep
    <2>2. CASE ~(db.version < 2 /\ ~Collides(db.vehicles))
        BY <1>1, <1>3, <2>2 DEF Migrate2, Migrated, Fail
    <2>3. QED
        BY <2>1, <2>2
<1>4. CASE SeedVehicles
    <2>1. FirstDemo \in Demo
        BY DemoIsKnown DEF FirstDemo
    <2>2. CASE FleetEmpty
        BY <1>2, <1>4, <2>1, <2>2 DEF SeedVehicles, FleetEmpty
    <2>3. CASE ~FleetEmpty
        BY <1>1, <1>4, <2>3 DEF SeedVehicles
    <2>4. QED
        BY <2>2, <2>3
<1>5. CASE SeedSecondVehicle
    <2>1. FirstDemo \in Demo
        BY DemoIsKnown DEF FirstDemo
    <2>2. PICK p \in Demo \ {FirstDemo} : InsertVehicle(p, "route")
        BY <1>5 DEF SeedSecondVehicle
    <2>3. QED
        BY <1>2, <1>5, <2>1, <2>2 DEF SeedSecondVehicle
<1>6. CASE ApplySchema \/ RecordVersion1 \/ SeedRoute \/ SeedDriver
           \/ SeedCertification \/ Bootstrap \/ Listen \/ ListenFails
           \/ StopProcess
    <2>1. db'.vehicles = db.vehicles
        BY <1>6 DEF ApplySchema, RecordVersion1, SeedRoute, SeedDriver,
                    SeedCertification, Bootstrap, Listen, ListenFails,
                    StopProcess
    <2>2. QED
        BY <1>1, <2>1
<1>7. QED
    BY <1>3, <1>4, <1>5, <1>6 DEF StartupStep

-----------------------------------------------------------------------------
(* The rate limiter *)

Buckets == {Never} \cup [tokens : Nat, updated : Nat]

\* A full bucket holds a token at least.
LEMMA FullBucket == Full \in Nat /\ Full >= TokenTicks
<1>1. \A a, b \in Nat \ {0} : a * b \in Nat /\ a * b >= b
    OBVIOUS
<1>2. QED
    BY <1>1, LimiterAssumption DEF Full

\* One more request costs one more token.
LEMMA OneMoreToken ==
    \A n \in Int : (n + 1) * TokenTicks = n * TokenTicks + TokenTicks
<1>1. TokenTicks \in Int
    BY LimiterAssumption
<1>2. \A n, t \in Int : (n + 1) * t = n * t + t
    OBVIOUS
<1>3. QED
    BY <1>1, <1>2

\* The tokens of a bucket at the wall time w.
TokensAt(b, w) ==
    IF b = Never THEN Full
    ELSE Least(Full, b.tokens + Greatest(w - b.updated, 0))

\* A bucket never holds more than it is full with, nor more than it had and the
\* wall time since; below the brim it holds just that.
LEMMA TokensAtBounds ==
    ASSUME NEW b \in Buckets, NEW w \in Nat
    PROVE  /\ TokensAt(b, w) \in Nat
           /\ TokensAt(b, w) <= Full
           /\ b # Never => /\ TokensAt(b, w) <= b.tokens
                                  + Greatest(w - b.updated, 0)
                           /\ TokensAt(b, w) < Full =>
                                  TokensAt(b, w) = b.tokens
                                      + Greatest(w - b.updated, 0)
BY FullBucket DEF TokensAt, Buckets, Least, Greatest

\* What is left in the bucket, what each admitted request and those after it
\* have cost, and what the bucket may still be refilled for time that has passed
\* already, come to no more than a full bucket and the time since that request.
\* The time that a clock set back shows twice is real time the second time only.
SpentTruly(b, times, at, behind) ==
    /\ b = Never => times = <<>>
    /\ b # Never => \A i \in 1..Len(times) :
          b.tokens + (Len(times) - i + 1) * TokenTicks + times[i]
              <= Full + Least(at, b.updated + behind)

BoundedTimes(times) ==
    \A i, j \in 1..Len(times) :
        i <= j => (j - i + 1) * TokenTicks <= Full + times[j] - times[i]

\* Sums of what is left, of costs and of moments.
LEMMA LaterMoment ==
    \A left, time, full, at, later \in Nat, cost \in Int :
        left + cost + time <= full + at /\ at <= later =>
            left + cost + time <= full + later
OBVIOUS

\* A refill that the real time covers keeps the balance of SpentTruly.
LEMMA RefillInTime ==
    \A left, time, full, at, later, gain, refilled \in Nat, cost \in Int :
        /\ left + cost + time <= full + at
        /\ at + gain <= later
        /\ refilled <= left + gain
        => refilled + cost + time <= full + later
OBVIOUS

\* The time a bucket has not yet been refilled for and the refill it gets now
\* come to no more than the time that has passed.
LEMMA LeastAndGreatest ==
    ASSUME NEW at \in Nat, NEW behind \in Nat, NEW updated \in Nat,
           behind <= at
    PROVE  LET early == Least(at, updated + behind)
               gain == Greatest(at - behind - updated, 0)
           IN  early \in Nat /\ gain \in Nat /\ early + gain <= at
BY DEF Least, Greatest

\* The time a bucket can claim only grows as the clocks go on or are set back.
LEMMA LeastGrows ==
    ASSUME NEW at \in Nat, NEW behind \in Nat, NEW updated \in Nat,
           NEW at2 \in Nat, NEW behind2 \in Nat,
           at <= at2, behind <= behind2
    PROVE  LET early == Least(at, updated + behind)
               late == Least(at2, updated + behind2)
           IN  early \in Nat /\ late \in Nat /\ early <= late
BY DEF Least

\* A token taken from the bucket is a token more that has been spent.
LEMMA CostOfOneMore ==
    \A left, cost, bound \in Int, token, tokens, time \in Nat :
        /\ left + token = tokens
        /\ tokens + cost + time <= bound
        => left + (cost + token) + time <= bound
OBVIOUS

\* The balance of SpentTruly bounds what has been spent.
LEMMA CostWithinBound ==
    \A cost \in Int, time, full, at, left \in Nat :
        left + cost + time <= full + at => cost <= full + at - time
OBVIOUS

\* A request that is admitted keeps the balance for all before it and starts
\* one of its own.
LEMMA SpentWhenAdmitted ==
    ASSUME NEW b \in Buckets, NEW times \in Seq(Nat), NEW at \in Nat,
           NEW behind \in Nat, behind <= at,
           SpentTruly(b, times, at, behind), BoundedTimes(times),
           TokensAt(b, at - behind) >= TokenTicks
    PROVE  LET left == [tokens |-> TokensAt(b, at - behind) - TokenTicks,
                        updated |-> at - behind]
           IN  /\ SpentTruly(left, Append(times, at), at, behind)
               /\ BoundedTimes(Append(times, at))
<1> DEFINE tokens == TokensAt(b, at - behind)
<1> DEFINE left == [tokens |-> tokens - TokenTicks, updated |-> at - behind]
<1> DEFINE after == Append(times, at)
<1>1. at - behind \in Nat
    OBVIOUS
<1>2. /\ tokens \in Nat /\ tokens <= Full
      /\ b # Never => tokens <= b.tokens + Greatest(at - behind - b.updated, 0)
    BY <1>1, TokensAtBounds
<1>3. /\ TokenTicks \in Nat /\ Full \in Nat
      /\ Never \notin [tokens : Nat, updated : Nat]
    BY LimiterAssumption, FullBucket
<1>4. left \in [tokens : Nat, updated : Nat] /\ left # Never
    BY <1>1, <1>2, <1>3
<1>5. /\ after \in Seq(Nat) /\ Len(after) = Len(times) + 1
      /\ after[Len(times) + 1] = at
      /\ \A i \in 1..Len(times) : after[i] = times[i]
    OBVIOUS
<1>6. left.tokens = tokens - TokenTicks /\ left.updated + behind = at
    OBVIOUS
<1>7. \A i \in 1..Len(times) :
          left.tokens + (Len(times) - i + 2) * TokenTicks + times[i] <= Full + at
    <2> TAKE i \in 1..Len(times)
    <2>1. b # Never
        BY DEF SpentTruly
    <2>2. b.tokens \in Nat /\ b.updated \in Nat
        BY <2>1 DEF Buckets
    <2>3. b.tokens + (Len(times) - i + 1) * TokenTicks + times[i]
              <= Full + Least(at, b.updated + behind)
        BY <2>1 DEF SpentTruly
    <2>4. (Len(times) - i + 1) \in Int /\ times[i] \in Nat
        OBVIOUS
    <2>5. PICK cost : cost = (Len(times) - i + 1) * TokenTicks
        OBVIOUS
    <2>6. cost \in Int
        BY <1>3, <2>4, <2>5
    <2>7. (Len(times) - i + 2) * TokenTicks = cost + TokenTicks
        <3>1. (Len(times) - i + 1) + 1 = Len(times) - i + 2
            BY <2>4
        <3>2. QED
            BY <2>4, <2>5, <3>1, OneMoreToken
    <2>8. PICK early, gain : /\ early = Least(at, b.updated + behind)
                             /\ gain = Greatest(at - behind - b.updated, 0)
        OBVIOUS
    <2>9. b.tokens + cost + times[i] <= Full + early
        BY <2>3, <2>5, <2>8
    <2>10. tokens <= b.tokens + gain
        BY <1>2, <2>1, <2>8
    <2>11. early \in Nat /\ gain \in Nat /\ early + gain <= at
        BY <2>2, <2>8, LeastAndGreatest
    <2> HIDE DEF tokens
    <2>12. tokens + cost + times[i] <= Full + at
        BY <1>2, <1>3, <2>2, <2>4, <2>6, <2>9, <2>10, <2>11, RefillInTime
    <2>13. left.tokens + TokenTicks = tokens
        BY <1>2, <1>3
    <2>14. left.tokens \in Int
        BY <1>2, <1>3
    <2> HIDE DEF left
    <2>15. left.tokens + (cost + TokenTicks) + times[i] <= Full + at
        <3>1. Full + at \in Int
            BY <1>3
        <3>2. QED
            BY <1>2, <1>3, <2>4, <2>6, <2>12, <2>13, <2>14, <3>1, CostOfOneMore
    <2>16. QED
        BY <2>7, <2>15
<1>8. left.tokens + TokenTicks + at <= Full + at
    BY <1>2, <1>3
<1>9. Least(at, left.updated + behind) = at
    BY <1>6 DEF Least
<1> HIDE DEF left, after, tokens
<1>10. \A i \in 1..Len(after) :
           left.tokens + (Len(after) - i + 1) * TokenTicks + after[i]
               <= Full + at
    <2> TAKE i \in 1..Len(after)
    <2>1. CASE i \in 1..Len(times)
        <3>1. Len(after) - i + 1 = Len(times) - i + 2
            BY <1>5, <2>1
        <3>2. QED
            BY <1>5, <1>7, <2>1, <3>1
    <2>2. CASE i = Len(times) + 1
        <3>1. Len(after) - i + 1 = 1
            BY <1>5, <2>2
        <3>2. 1 * TokenTicks = TokenTicks
            BY <1>3
        <3>3. QED
            BY <1>5, <1>8, <2>2, <3>1, <3>2
    <2>3. QED
        BY <1>5, <2>1, <2>2
<1>11. SpentTruly(left, after, at, behind)
    BY <1>4, <1>9, <1>10 DEF SpentTruly
<1>12. BoundedTimes(after)
    <2> SUFFICES ASSUME NEW i \in 1..Len(after), NEW j \in 1..Len(after),
                        i <= j
                 PROVE  (j - i + 1) * TokenTicks
                            <= Full + after[j] - after[i]
        BY DEF BoundedTimes
    <2>1. CASE j \in 1..Len(times)
        <3>1. i \in 1..Len(times)
            BY <1>5, <2>1
        <3>2. QED
            BY <1>5, <2>1, <3>1 DEF BoundedTimes
    <2>2. CASE j = Len(times) + 1
        <3>1. j = Len(after) /\ after[j] = at
            BY <1>5, <2>2
        <3>2. left.tokens + (j - i + 1) * TokenTicks + after[i] <= Full + at
            BY <1>10, <3>1
        <3>3. PICK cost : cost = (j - i + 1) * TokenTicks
            OBVIOUS
        <3>4. cost \in Int /\ after[i] \in Nat /\ left.tokens \in Nat
            BY <1>3, <1>4, <1>5, <3>3
        <3>5. left.tokens + cost + after[i] <= Full + at
            BY <3>2, <3>3
        <3>6. cost <= Full + at - after[i]
            BY <1>3, <3>4, <3>5, CostWithinBound
        <3>7. QED
            BY <3>1, <3>3, <3>6
    <2>3. QED
        BY <1>5, <2>1, <2>2
<1>13. QED
    BY <1>11, <1>12 DEF left, after, tokens

\* A refused request costs nothing.
LEMMA SpentWhenRefused ==
    ASSUME NEW b \in Buckets, NEW times \in Seq(Nat), NEW at \in Nat,
           NEW behind \in Nat, behind <= at,
           SpentTruly(b, times, at, behind)
    PROVE  SpentTruly([tokens |-> TokensAt(b, at - behind),
                       updated |-> at - behind], times, at, behind)
<1> DEFINE tokens == TokensAt(b, at - behind)
<1> DEFINE kept == [tokens |-> tokens, updated |-> at - behind]
<1>1. at - behind \in Nat
    OBVIOUS
<1>2. /\ tokens \in Nat
      /\ b # Never => tokens <= b.tokens + Greatest(at - behind - b.updated, 0)
    BY <1>1, TokensAtBounds
<1>3. /\ TokenTicks \in Nat /\ Full \in Nat
      /\ Never \notin [tokens : Nat, updated : Nat]
    BY LimiterAssumption, FullBucket
<1>4. kept # Never /\ kept.tokens = tokens /\ kept.updated + behind = at
    BY <1>1, <1>2, <1>3
<1> HIDE DEF kept, tokens
<1>5. \A i \in 1..Len(times) :
          kept.tokens + (Len(times) - i + 1) * TokenTicks + times[i]
              <= Full + at
    <2> TAKE i \in 1..Len(times)
    <2>1. b # Never
        BY DEF SpentTruly
    <2>2. b.tokens \in Nat /\ b.updated \in Nat
        BY <2>1 DEF Buckets
    <2>3. PICK cost : cost = (Len(times) - i + 1) * TokenTicks
        OBVIOUS
    <2>4. cost \in Int /\ times[i] \in Nat
        BY <1>3, <2>3
    <2>5. PICK early, gain : /\ early = Least(at, b.updated + behind)
                             /\ gain = Greatest(at - behind - b.updated, 0)
        OBVIOUS
    <2>6. b.tokens + cost + times[i] <= Full + early
        BY <2>1, <2>3, <2>5 DEF SpentTruly
    <2>7. tokens <= b.tokens + gain
        BY <1>2, <2>1, <2>5
    <2>8. early \in Nat /\ gain \in Nat /\ early + gain <= at
        BY <2>2, <2>5, LeastAndGreatest
    <2>9. tokens + cost + times[i] <= Full + at
        BY <1>2, <1>3, <2>2, <2>4, <2>6, <2>7, <2>8, RefillInTime
    <2>10. QED
        BY <1>4, <2>3, <2>9
<1>6. Least(at, kept.updated + behind) = at
    BY <1>4 DEF Least
<1>7. QED
    BY <1>4, <1>5, <1>6 DEF SpentTruly, kept, tokens

\* Time that passes, and a clock set back further, only allow more.
LEMMA SpentAsTimePasses ==
    ASSUME NEW b \in Buckets, NEW times \in Seq(Nat), NEW at \in Nat,
           NEW behind \in Nat, SpentTruly(b, times, at, behind),
           NEW at2 \in Nat, NEW behind2 \in Nat,
           at <= at2, behind <= behind2
    PROVE  SpentTruly(b, times, at2, behind2)
<1>1. CASE b = Never
    BY <1>1 DEF SpentTruly
<1>2. CASE b # Never
    <2>1. b.updated \in Nat /\ b.tokens \in Nat
        BY <1>2 DEF Buckets
    <2>2. PICK early, late :
              /\ early = Least(at, b.updated + behind)
              /\ late = Least(at2, b.updated + behind2)
        OBVIOUS
    <2>3. early \in Nat /\ late \in Nat /\ early <= late
        BY <2>1, <2>2, LeastGrows
    <2>4. ASSUME NEW i \in 1..Len(times)
          PROVE  b.tokens + (Len(times) - i + 1) * TokenTicks + times[i]
                     <= Full + Least(at2, b.updated + behind2)
        <3>1. PICK cost : cost = (Len(times) - i + 1) * TokenTicks
            OBVIOUS
        <3>2. cost \in Int /\ times[i] \in Nat
            <4>1. TokenTicks \in Int /\ Len(times) - i + 1 \in Int
                BY LimiterAssumption
            <4>2. cost \in Int
                BY <3>1, <4>1
            <4>3. times[i] \in Nat
                OBVIOUS
            <4>4. QED
                BY <4>2, <4>3
        <3>3. b.tokens + cost + times[i] <= Full + early
            BY <1>2, <2>2, <3>1 DEF SpentTruly
        <3>4. b.tokens + cost + times[i] <= Full + late
            BY <2>1, <2>3, <3>2, <3>3, FullBucket, LaterMoment
        <3>5. QED
            BY <2>2, <3>1, <3>4
    <2>5. QED
        BY <1>2, <2>4 DEF SpentTruly
<1>3. QED
    BY <1>1, <1>2

\* Rounded to the nearest second: at most half a second short.
LEMMA HeaderBounds ==
    ASSUME NEW duration \in Nat
    PROVE  /\ RetryHeader(duration) \in Nat
           /\ RetryHeader(duration) >= SecondTicks
           /\ RetryHeader(duration) + RetryHeader(duration)
                  >= duration + duration - SecondTicks
<1>1. \A d, s \in Nat : s # 0 => /\ d % s \in Nat
                                 /\ d % s < s
    OBVIOUS
<1>2. PICK part : part = duration % SecondTicks
    OBVIOUS
<1>3. part \in Nat /\ part < SecondTicks /\ SecondTicks \in Nat
    BY <1>1, <1>2, LimiterAssumption
<1>4. RetryHeader(duration) =
          Greatest(SecondTicks, IF part + part < SecondTicks
                                THEN duration - part
                                ELSE duration - part + SecondTicks)
    BY <1>2 DEF RetryHeader
<1>5. QED
    BY <1>3, <1>4 DEF Greatest

\* A refused client was told to wait for what its bucket was short of, to the
\* nearest second, and a client refused again as it came back was short of no
\* more than half of one.
ToldTruly(b, back, again, at, behind) ==
    back # Never =>
        /\ b # Never
        /\ b.tokens < TokenTicks
        /\ b.updated + behind <= at
        /\ back >= b.updated + behind + RetryHeader(RetryAfter(b.tokens))
        /\ again = 1 =>
               2 * (TokenTicks - b.tokens) <= SecondTicks

Again(back, again, at) ==
    IF back # Never /\ at >= back THEN again + 1 ELSE 0

\* A refusal tells the client truly when to come back, and is the second in a
\* row at most.
LEMMA ToldWhenRefused ==
    ASSUME NEW b \in Buckets, NEW back \in Nat \cup {Never},
           NEW again \in {0, 1}, NEW at \in Nat, NEW behind \in Nat,
           behind <= at, ToldTruly(b, back, again, at, behind),
           TokensAt(b, at - behind) < TokenTicks
    PROVE  LET tokens == TokensAt(b, at - behind)
               kept == [tokens |-> tokens, updated |-> at - behind]
           IN  /\ Again(back, again, at) \in {0, 1}
               /\ at + RetryHeader(RetryAfter(tokens)) \in Nat
               /\ ToldTruly(kept, at + RetryHeader(RetryAfter(tokens)),
                            Again(back, again, at), at, behind)
<1> DEFINE tokens == TokensAt(b, at - behind)
<1> DEFINE kept == [tokens |-> tokens, updated |-> at - behind]
<1>1. at - behind \in Nat
    OBVIOUS
<1>2. /\ tokens \in Nat
      /\ b # Never /\ tokens < Full =>
             tokens = b.tokens + Greatest(at - behind - b.updated, 0)
    BY <1>1, TokensAtBounds
<1>3. /\ TokenTicks \in Nat /\ SecondTicks \in Nat
      /\ SecondTicks > 0
      /\ Never \notin [tokens : Nat, updated : Nat]
    BY LimiterAssumption
<1>4. kept # Never /\ kept.tokens = tokens /\ kept.updated + behind = at
    BY <1>1, <1>2, <1>3
<1>5. RetryAfter(tokens) \in Nat
    BY <1>2, <1>3 DEF RetryAfter, Greatest
<1>6. RetryHeader(RetryAfter(tokens)) \in Nat
    BY <1>5, HeaderBounds
<1>7. ASSUME back # Never, at >= back
      PROVE  again = 0 /\ 2 * (TokenTicks - tokens) <= SecondTicks
    <2>1. /\ b # Never /\ b.tokens < TokenTicks
          /\ b.updated + behind <= at
          /\ back >= b.updated + behind + RetryHeader(RetryAfter(b.tokens))
          /\ again = 1 => 2 * (TokenTicks - b.tokens) <= SecondTicks
        BY <1>7 DEF ToldTruly
    <2>2. b.tokens \in Nat /\ b.updated \in Nat /\ back \in Nat
        BY <1>7, <2>1 DEF Buckets
    <2>3. tokens < Full
        BY <1>2, <1>3, FullBucket
    <2>4. tokens = b.tokens + (at - behind - b.updated)
        BY <1>2, <2>1, <2>2, <2>3 DEF Greatest
    <2>5. PICK short : short = RetryAfter(b.tokens)
        OBVIOUS
    <2>6. /\ short \in Nat /\ short >= TokenTicks - b.tokens
          /\ short >= SecondTicks
        BY <1>3, <2>2, <2>5 DEF RetryAfter, Greatest
    <2>7. PICK header : header = RetryHeader(short)
        OBVIOUS
    <2>8. /\ header \in Nat /\ header >= SecondTicks
          /\ header + header >= short + short - SecondTicks
        BY <2>6, <2>7, HeaderBounds
    <2>9. at - behind - b.updated >= header
        BY <1>7, <2>1, <2>2, <2>5, <2>7, <2>8
    <2> HIDE DEF tokens
    <2>10. tokens >= b.tokens + header
        BY <1>2, <2>2, <2>4, <2>8, <2>9
    <2>11. 2 * (TokenTicks - tokens) <= SecondTicks
        BY <1>2, <1>3, <2>2, <2>6, <2>8, <2>10
    <2>12. again = 0
        BY <1>2, <1>3, <2>1, <2>2, <2>8, <2>10 DEF tokens
    <2>13. QED
        BY <2>11, <2>12
<1>8. Again(back, again, at) \in {0, 1}
    BY <1>7 DEF Again
<1>9. Again(back, again, at) = 1 => 2 * (TokenTicks - tokens) <= SecondTicks
    BY <1>7 DEF Again
<1>10. at + RetryHeader(RetryAfter(tokens)) \in Nat
    BY <1>6
<1> HIDE DEF kept, tokens
<1>11. ToldTruly(kept, at + RetryHeader(RetryAfter(tokens)),
                 Again(back, again, at), at, behind)
    BY <1>4, <1>6, <1>9 DEF ToldTruly, tokens
<1>12. QED
    BY <1>8, <1>10, <1>11 DEF kept, tokens

\* What a client was told stays true as time passes.
LEMMA ToldAsTimePasses ==
    ASSUME NEW b \in Buckets, NEW back, NEW again, NEW at \in Nat,
           NEW behind \in Nat, ToldTruly(b, back, again, at, behind),
           NEW at2 \in Nat, at <= at2
    PROVE  ToldTruly(b, back, again, at2, behind)
<1>1. b # Never => b.updated \in Nat
    BY DEF Buckets
<1>2. QED
    BY <1>1 DEF ToldTruly

-----------------------------------------------------------------------------

LimiterTypes ==
    /\ buckets \in [Clients -> Buckets]
    /\ admitted \in [Clients -> Seq(Nat)]
    /\ told \in [Clients -> Nat \cup {Never}]
    /\ refusals \in [Clients -> {0, 1}]
    /\ \A c \in Clients : buckets[c] # Never =>
          buckets[c].tokens \in 0..Greatest(Full - TokenTicks, TokenTicks - 1)

ClientInv(c) ==
    /\ SpentTruly(buckets[c], admitted[c], elapsed, setBack)
    /\ BoundedTimes(admitted[c])
    /\ ToldTruly(buckets[c], told[c], refusals[c], elapsed, setBack)

LimiterInv == LimiterTypes /\ \A c \in Clients : ClientInv(c)

\* The wall clock is set back by no more than it has ever shown.
ClockInv ==
    /\ now \in Moments /\ advanced \in Advances /\ setBack \in SetBacks
    /\ setBack <= elapsed

\* Before and after a step.
LEMMA ElapsedTime == elapsed = now + advanced /\ elapsed' = now' + advanced'
BY DEF elapsed

\* Sums of naturals grow with their parts.
LEMMA SumsGrow ==
    \A n, m, a, b \in Nat : n + a \in Nat /\ (n <= m /\ a <= b => n + a <= m + b)
OBVIOUS

\* The clocks show natural numbers after a step as well.
LEMMA NextElapsed == ASSUME ClockInv' PROVE elapsed' \in Nat /\ setBack' \in Nat
<1>1. now' \in Nat /\ advanced' \in Nat /\ setBack' \in Nat
    BY MomentsAssumption DEF ClockInv
<1>2. now' + advanced' \in Nat
    BY <1>1, SumsGrow
<1>3. QED
    BY <1>1, <1>2, ElapsedTime

\* The clocks show natural numbers.
LEMMA ClockIsNat ==
    ASSUME ClockInv
    PROVE  elapsed \in Nat /\ setBack \in Nat /\ wall \in Nat
BY MomentsAssumption, ElapsedTime DEF ClockInv, wall

\* A process that starts has no bucket yet.
LEMMA EmptyLimiter ==
    ASSUME buckets = [c \in Clients |-> Never],
           admitted = [c \in Clients |-> <<>>],
           told = [c \in Clients |-> Never],
           refusals = [c \in Clients |-> 0]
    PROVE  LimiterInv
<1>1. <<>> \in Seq(Nat) /\ Len(<<>>) = 0
    OBVIOUS
<1>2. LimiterTypes
    BY <1>1 DEF LimiterTypes, Buckets
<1>3. \A c \in Clients : ClientInv(c)
    BY <1>1 DEF ClientInv, SpentTruly, BoundedTimes, ToldTruly
<1>4. QED
    BY <1>2, <1>3 DEF LimiterInv

\* TokensAt is what Allow works with.
LEMMA RefilledIsTokensAt ==
    \A c \in Clients : Refilled(c, wall) = TokensAt(buckets[c], wall)
BY DEF Refilled, TokensAt

\* A request admitted keeps the invariant of the buckets.
LEMMA LimiterAdmits ==
    ASSUME LimiterInv, ClockInv, NEW c \in Clients, Admit(c, elapsed, wall),
           UNCHANGED <<elapsed, setBack>>
    PROVE  LimiterInv'
<1> USE DEF LimiterInv
<1>1. elapsed \in Nat /\ setBack \in Nat /\ wall \in Nat /\ wall = elapsed - setBack
      /\ setBack <= elapsed
    BY ClockIsNat DEF wall, ClockInv
<1>2. PICK b, times : b = buckets[c] /\ times = admitted[c]
    OBVIOUS
<1>3. b \in Buckets /\ times \in Seq(Nat)
    BY <1>2 DEF LimiterTypes
<1>4. PICK tokens : tokens = TokensAt(b, wall)
    OBVIOUS
<1>5. tokens >= TokenTicks
    BY <1>2, <1>4, RefilledIsTokensAt DEF Admit
<1>6. PICK left : left = [tokens |-> tokens - TokenTicks, updated |-> wall]
    OBVIOUS
<1>7. /\ buckets' = [buckets EXCEPT ![c] = left]
      /\ admitted' = [admitted EXCEPT ![c] = Append(times, elapsed)]
      /\ told' = [told EXCEPT ![c] = Never]
      /\ refusals' = [refusals EXCEPT ![c] = 0]
    BY <1>2, <1>4, <1>6, RefilledIsTokensAt DEF Admit, LimiterTypes
<1>8. tokens \in Nat /\ tokens <= Full /\ TokenTicks \in Nat /\ Full \in Nat
    BY <1>1, <1>3, <1>4, TokensAtBounds, LimiterAssumption, FullBucket
<1>9. /\ left \in [tokens : Nat, updated : Nat]
      /\ left.tokens \in 0..Greatest(Full - TokenTicks, TokenTicks - 1)
    BY <1>1, <1>5, <1>6, <1>8 DEF Greatest
<1>10. /\ SpentTruly(left, Append(times, elapsed), elapsed, setBack)
       /\ BoundedTimes(Append(times, elapsed))
    <2>1. SpentTruly(b, times, elapsed, setBack) /\ BoundedTimes(times)
        BY <1>2 DEF ClientInv
    <2>2. TokensAt(b, elapsed - setBack) >= TokenTicks
        BY <1>1, <1>4, <1>5
    <2>3. left = [tokens |-> TokensAt(b, elapsed - setBack) - TokenTicks,
                  updated |-> elapsed - setBack]
        BY <1>1, <1>4, <1>6
    <2>4. QED
        BY <1>1, <1>3, <2>1, <2>2, <2>3, SpentWhenAdmitted
<1>11. LimiterTypes'
    <2>1. Append(times, elapsed) \in Seq(Nat)
        BY <1>1, <1>3
    <2>2. left \in Buckets
        BY <1>9 DEF Buckets
    <2>3. QED
        BY <1>7, <1>9, <2>1, <2>2 DEF LimiterTypes
<1>12. ASSUME NEW d \in Clients
       PROVE  ClientInv(d)'
    <2>0. elapsed' = elapsed /\ setBack' = setBack
        OBVIOUS
    <2>1. CASE d = c
        <3>1. /\ buckets'[d] = left /\ admitted'[d] = Append(times, elapsed)
              /\ told'[d] = Never
            BY <1>7, <2>1 DEF LimiterTypes
        <3>2. ToldTruly(buckets'[d], told'[d], refusals'[d], elapsed, setBack)
            BY <3>1 DEF ToldTruly
        <3>3. QED
            BY <1>10, <2>0, <3>1, <3>2 DEF ClientInv
    <2>2. CASE d # c
        <3>1. /\ buckets'[d] = buckets[d] /\ admitted'[d] = admitted[d]
              /\ told'[d] = told[d] /\ refusals'[d] = refusals[d]
            BY <1>7, <2>2 DEF LimiterTypes
        <3>2. ClientInv(d)
            OBVIOUS
        <3>3. QED
            BY <2>0, <3>1, <3>2 DEF ClientInv
    <2>3. QED
        BY <2>1, <2>2
<1>13. QED
    BY <1>11, <1>12

\* So does one refused.
LEMMA LimiterRefuses ==
    ASSUME LimiterInv, ClockInv, NEW c \in Clients, Refuse(c, elapsed, wall),
           UNCHANGED <<elapsed, setBack>>
    PROVE  LimiterInv'
<1> USE DEF LimiterInv
<1>1. elapsed \in Nat /\ setBack \in Nat /\ wall \in Nat /\ wall = elapsed - setBack
      /\ setBack <= elapsed
    BY ClockIsNat DEF wall, ClockInv
<1>2. PICK b, times, back, again :
          /\ b = buckets[c] /\ times = admitted[c]
          /\ back = told[c] /\ again = refusals[c]
    OBVIOUS
<1>3. /\ b \in Buckets /\ times \in Seq(Nat)
      /\ back \in Nat \cup {Never} /\ again \in {0, 1}
    BY <1>2 DEF LimiterTypes
<1>4. PICK tokens : tokens = TokensAt(b, elapsed - setBack)
    OBVIOUS
<1>5. tokens < TokenTicks /\ Refilled(c, wall) = tokens
    BY <1>1, <1>2, <1>4, RefilledIsTokensAt DEF Refuse
<1>6. PICK kept, later, count :
          /\ kept = [tokens |-> tokens, updated |-> elapsed - setBack]
          /\ later = elapsed + RetryHeader(RetryAfter(tokens))
          /\ count = Again(back, again, elapsed)
    OBVIOUS
<1>7. /\ buckets' = [buckets EXCEPT ![c] = kept]
      /\ told' = [told EXCEPT ![c] = later]
      /\ refusals' = [refusals EXCEPT ![c] = count]
      /\ admitted' = admitted
    BY <1>1, <1>2, <1>5, <1>6 DEF Refuse, Again, LimiterTypes
<1>8. tokens \in Nat /\ TokenTicks \in Nat /\ Full \in Nat
    BY <1>1, <1>3, <1>4, TokensAtBounds, LimiterAssumption, FullBucket
<1>9. /\ kept \in [tokens : Nat, updated : Nat]
      /\ kept.tokens \in 0..Greatest(Full - TokenTicks, TokenTicks - 1)
    BY <1>1, <1>5, <1>6, <1>8 DEF Greatest
<1>10. /\ SpentTruly(b, times, elapsed, setBack) /\ BoundedTimes(times)
       /\ ToldTruly(b, back, again, elapsed, setBack)
    BY <1>2 DEF ClientInv
<1>11. SpentTruly(kept, times, elapsed, setBack)
    BY <1>1, <1>3, <1>4, <1>6, <1>10, SpentWhenRefused
<1>12. /\ count \in {0, 1} /\ later \in Nat
       /\ ToldTruly(kept, later, count, elapsed, setBack)
    BY <1>1, <1>3, <1>4, <1>5, <1>6, <1>10, ToldWhenRefused
<1>13. LimiterTypes'
    <2>1. kept \in Buckets
        BY <1>9 DEF Buckets
    <2>2. QED
        BY <1>7, <1>9, <1>12, <2>1 DEF LimiterTypes
<1>14. ASSUME NEW d \in Clients
       PROVE  ClientInv(d)'
    <2>0. elapsed' = elapsed /\ setBack' = setBack
        OBVIOUS
    <2>1. CASE d = c
        <3>1. /\ buckets'[d] = kept /\ admitted'[d] = times
              /\ told'[d] = later /\ refusals'[d] = count
            BY <1>2, <1>7, <2>1 DEF LimiterTypes
        <3>2. QED
            BY <1>10, <1>11, <1>12, <2>0, <3>1 DEF ClientInv
    <2>2. CASE d # c
        <3>1. /\ buckets'[d] = buckets[d] /\ admitted'[d] = admitted[d]
              /\ told'[d] = told[d] /\ refusals'[d] = refusals[d]
            BY <1>7, <2>2 DEF LimiterTypes
        <3>2. ClientInv(d)
            OBVIOUS
        <3>3. QED
            BY <2>0, <3>1, <3>2 DEF ClientInv
    <2>3. QED
        BY <2>1, <2>2
<1>15. QED
    BY <1>13, <1>14

\* Time passes for real, or the clock is set forward, or back.
LEMMA LimiterTicks ==
    ASSUME LimiterInv, ClockInv, ClockInv',
           UNCHANGED <<buckets, admitted, refusals>>,
           \/ elapsed' >= elapsed /\ UNCHANGED <<setBack, told>>
           \/ /\ setBack' >= setBack /\ elapsed' = elapsed
              /\ told' = [c \in Clients |-> Never]
    PROVE  LimiterInv'
<1> USE DEF LimiterInv
<1>1. /\ elapsed \in Nat /\ setBack \in Nat /\ elapsed' \in Nat /\ setBack' \in Nat
      /\ elapsed <= elapsed' /\ setBack <= setBack'
    BY ClockIsNat, NextElapsed
<1>2. LimiterTypes'
    BY DEF LimiterTypes
<1>3. ASSUME NEW c \in Clients
      PROVE  ClientInv(c)'
    <2>1. PICK b, times, back, again, at, behind, at2, behind2 :
              /\ b = buckets[c] /\ times = admitted[c]
              /\ back = told[c] /\ again = refusals[c]
              /\ at = elapsed /\ behind = setBack
              /\ at2 = elapsed' /\ behind2 = setBack'
        OBVIOUS
    <2>2. /\ SpentTruly(b, times, at, behind) /\ BoundedTimes(times)
          /\ ToldTruly(b, back, again, at, behind)
        BY <2>1 DEF ClientInv
    <2>3. b \in Buckets /\ times \in Seq(Nat)
        BY <2>1 DEF LimiterTypes
    <2>4. /\ at \in Nat /\ behind \in Nat /\ at2 \in Nat /\ behind2 \in Nat
          /\ at <= at2 /\ behind <= behind2
        BY <1>1, <2>1
    <2>5. SpentTruly(b, times, at2, behind2)
        BY <2>2, <2>3, <2>4, SpentAsTimePasses
    <2>6. ToldTruly(b, told'[c], again, at2, behind2)
        <3>1. CASE told'[c] = Never
            BY <3>1 DEF ToldTruly
        <3>2. CASE told'[c] = back /\ behind2 = behind
            BY <2>2, <2>3, <2>4, <3>2, ToldAsTimePasses
        <3>3. QED
            BY <2>1, <3>1, <3>2
    <2>7. /\ buckets'[c] = b /\ admitted'[c] = times /\ refusals'[c] = again
        BY <2>1
    <2>8. QED
        BY <2>1, <2>2, <2>5, <2>6, <2>7 DEF ClientInv
<1>4. QED
    BY <1>2, <1>3

-----------------------------------------------------------------------------
(* Sessions *)

Sessions == {NoSession} \cup [expires : Nat, revoked : BOOLEAN]

Calls == [at : {"verify", "work", "logout"}, kind : {"work", "logout"},
          token : Tokens, loggedOut : BOOLEAN, expired : BOOLEAN]

\* A token that is logged out has a revoked session; a request that arrived
\* with one, or late, carries one whose session is revoked or over by now; and
\* past authentication it is neither.
CallTruly(r) ==
    request[r] \in Calls =>
        /\ request[r].loggedOut => request[r].token \in loggedOut
        /\ request[r].expired =>
              /\ sessions[request[r].token] # NoSession
              /\ sessions[request[r].token].expires <= elapsed
        /\ request[r].at # "verify" =>
              /\ sessions[request[r].token] # NoSession
              /\ ~request[r].loggedOut
              /\ setBack = 0 => ~request[r].expired

SessionsInv ==
    /\ sessions \in [Tokens -> Sessions]
    /\ request \in [Slots -> Requests]
    /\ loggedOut \subseteq Tokens
    /\ \A t \in loggedOut : sessions[t] # NoSession /\ sessions[t].revoked
    /\ \A r \in Slots : CallTruly(r)

\* What a request may be, each kind unlike the others.
LEMMA RequestKinds ==
    /\ Requests = {Idle, [at |-> "login"]} \cup Calls
    /\ Idle \notin Calls /\ [at |-> "login"] \notin Calls
    /\ Idle.at = "idle"
<1>1. \A call \in Calls : call.at # "idle" /\ call.at # "login"
    BY DEF Calls
<1>2. QED
    BY <1>1 DEF Requests, Calls, Idle

\* A request that is none under way claims nothing.
LEMMA NewRequest ==
    ASSUME SessionsInv, NEW r \in Slots, NEW next \in Requests,
           request' = [request EXCEPT ![r] = next],
           next \in Calls =>
               /\ next.at = "verify"
               /\ next.loggedOut => next.token \in loggedOut
               /\ next.expired => /\ sessions[next.token] # NoSession
                                  /\ sessions[next.token].expires <= elapsed,
           UNCHANGED <<sessions, loggedOut, elapsed, setBack>>
    PROVE  SessionsInv'
<1>1. ASSUME NEW s \in Slots
      PROVE  CallTruly(s)'
    <2>1. CASE s = r
        <3>1. request'[s] = next
            BY <2>1 DEF SessionsInv
        <3>2. QED
            BY <3>1 DEF CallTruly
    <2>2. CASE s # r
        <3>1. request'[s] = request[s]
            BY <2>2 DEF SessionsInv
        <3>2. CallTruly(s)
            BY DEF SessionsInv
        <3>3. QED
            BY <3>1, <3>2 DEF CallTruly
    <2>3. QED
        BY <2>1, <2>2
<1>2. request' \in [Slots -> Requests]
    BY DEF SessionsInv
<1>3. QED
    BY <1>1, <1>2 DEF SessionsInv

\* A session only ever loses: none goes, none is valid for longer.
LEMMA SessionsWritten ==
    ASSUME SessionsInv, NEW r \in Slots,
           request' = [request EXCEPT ![r] = Idle],
           sessions' \in [Tokens -> Sessions],
           \A t \in Tokens : sessions[t] # NoSession =>
               /\ sessions'[t] # NoSession
               /\ sessions'[t].expires = sessions[t].expires
               /\ sessions[t].revoked => sessions'[t].revoked,
           loggedOut \subseteq loggedOut', loggedOut' \subseteq Tokens,
           \A t \in loggedOut' \ loggedOut :
               sessions'[t] # NoSession /\ sessions'[t].revoked,
           UNCHANGED <<elapsed, setBack>>
    PROVE  SessionsInv'
<1>1. ASSUME NEW s \in Slots
      PROVE  CallTruly(s)'
    <2>1. CASE s = r
        <3>1. request'[s] = Idle
            BY <2>1 DEF SessionsInv
        <3>2. QED
            BY <3>1, RequestKinds DEF CallTruly
    <2>2. CASE s # r
        <3>1. request'[s] = request[s]
            BY <2>2 DEF SessionsInv
        <3>2. CallTruly(s)
            BY DEF SessionsInv
        <3>3. request[s] \in Calls => request[s].token \in Tokens
            BY DEF Calls
        <3>4. QED
            BY <3>1, <3>2, <3>3 DEF CallTruly
    <2>3. QED
        BY <2>1, <2>2
<1>2. request' \in [Slots -> Requests]
    BY RequestKinds DEF SessionsInv
<1>3. \A t \in loggedOut' : sessions'[t] # NoSession /\ sessions'[t].revoked
    BY DEF SessionsInv
<1>4. QED
    BY <1>1, <1>2, <1>3 DEF SessionsInv

\* Revoking a session changes nothing else of it.
LEMMA SessionRevoked ==
    ASSUME NEW session \in [expires : Nat, revoked : BOOLEAN]
    PROVE  LET ended == [session EXCEPT !.revoked = TRUE]
           IN  /\ ended \in [expires : Nat, revoked : BOOLEAN]
               /\ ended.expires = session.expires
               /\ ended.revoked
OBVIOUS

\* The statements of a request keep the invariant of the sessions.
LEMMA SessionsHandle ==
    ASSUME SessionsInv, ClockInv, NEW r \in Slots, Handle(r)
    PROVE  SessionsInv'
<1>0. UNCHANGED <<elapsed, setBack>>
    BY ElapsedTime DEF Handle, clockVars
<1>1. CASE Login(r, wall)
    <2>1. PICK t \in Tokens :
              /\ sessions[t] = NoSession
              /\ sessions' = [sessions EXCEPT ![t] =
                                [expires |-> wall + SessionTTL,
                                 revoked |-> FALSE]]
        BY <1>1 DEF Login
    <2>2. wall + SessionTTL \in Nat
        BY ClockIsNat, SessionTTLIsNat
    <2>3. sessions' \in [Tokens -> Sessions]
        BY <2>1, <2>2 DEF SessionsInv, Sessions
    <2>4. /\ request' = [request EXCEPT ![r] = Idle]
          /\ loggedOut' = loggedOut
        BY <1>1 DEF Login
    <2>5. \A u \in Tokens : sessions[u] # NoSession => sessions'[u] = sessions[u]
        BY <2>1 DEF SessionsInv
    <2>6. QED
        BY <1>0, <2>3, <2>4, <2>5, SessionsWritten DEF SessionsInv
<1>2. CASE Authenticate(r, wall)
    <2>1. PICK call : call = request[r]
        OBVIOUS
    <2>2. call \in Calls /\ call.at = "verify"
        BY <1>2, <2>1, RequestKinds DEF Authenticate, SessionsInv, Idle
    <2>3. PICK session : session = sessions[call.token]
        OBVIOUS
    <2>4. session # NoSession /\ ~session.revoked /\ wall < session.expires
        BY <1>2, <2>1, <2>3 DEF Authenticate, ValidAt
    <2>5. PICK next : next = [call EXCEPT !.at = call.kind]
        OBVIOUS
    <2>6. /\ request' = [request EXCEPT ![r] = next]
          /\ UNCHANGED <<sessions, loggedOut>>
        BY <1>2, <2>1, <2>5 DEF Authenticate
    <2>7. /\ next \in Calls
          /\ next.token = call.token
          /\ next.loggedOut = call.loggedOut
          /\ next.expired = call.expired
        BY <2>2, <2>5 DEF Calls
    <2>8. /\ call.loggedOut => call.token \in loggedOut
          /\ call.expired => /\ session # NoSession
                             /\ session.expires <= elapsed
        BY <2>1, <2>2, <2>3 DEF SessionsInv, CallTruly
    <2>9. session \in [expires : Nat, revoked : BOOLEAN]
        BY <2>2, <2>3, <2>4 DEF SessionsInv, Sessions, Calls
    <2>10. ~call.loggedOut
        BY <2>3, <2>4, <2>8 DEF SessionsInv
    <2>11. setBack = 0 => ~call.expired
        BY <2>4, <2>8, <2>9, ClockIsNat DEF wall
    <2>12. ASSUME NEW s \in Slots
           PROVE  CallTruly(s)'
        <3>1. CASE s = r
            <4>1. request'[s] = next
                BY <2>6, <3>1 DEF SessionsInv
            <4>2. QED
                BY <1>0, <2>3, <2>4, <2>6, <2>7, <2>8, <2>10, <2>11, <4>1
                   DEF CallTruly
        <3>2. CASE s # r
            <4>1. request'[s] = request[s]
                BY <2>6, <3>2 DEF SessionsInv
            <4>2. CallTruly(s)
                BY DEF SessionsInv
            <4>3. QED
                BY <1>0, <2>6, <4>1, <4>2 DEF CallTruly
        <3>3. QED
            BY <3>1, <3>2
    <2>13. request' \in [Slots -> Requests]
        BY <2>6, <2>7, RequestKinds DEF SessionsInv
    <2>14. QED
        BY <2>6, <2>12, <2>13 DEF SessionsInv
<1>3. CASE Logout(r) \/ LogoutUnanswered(r)
    <2>1. PICK call : call = request[r]
        OBVIOUS
    <2>2. call \in Calls /\ call.at = "logout"
        BY <1>3, <2>1, RequestKinds
           DEF Logout, LogoutUnanswered, SessionsInv, Idle
    <2>3. PICK t : t = call.token
        OBVIOUS
    <2>4. t \in Tokens /\ sessions[t] # NoSession
        BY <2>1, <2>2, <2>3 DEF SessionsInv, CallTruly, Calls
    <2>5. sessions[t] \in [expires : Nat, revoked : BOOLEAN]
        BY <2>4 DEF SessionsInv, Sessions
    <2>6. PICK ended : ended = [sessions[t] EXCEPT !.revoked = TRUE]
        OBVIOUS
    <2>7. /\ ended \in [expires : Nat, revoked : BOOLEAN]
          /\ ended.expires = sessions[t].expires /\ ended.revoked
        BY <2>5, <2>6, SessionRevoked
    <2>8. ended # NoSession
        BY <2>7, NoSessionIsNoSession
    <2>9. sessions' = [sessions EXCEPT ![t] = ended]
        BY <1>3, <2>1, <2>3, <2>6 DEF Logout, LogoutUnanswered
    <2>10. /\ request' = [request EXCEPT ![r] = Idle]
           /\ loggedOut' = loggedOut \/ loggedOut' = loggedOut \cup {t}
        BY <1>3, <2>1, <2>3 DEF Logout, LogoutUnanswered
    <2>11. sessions'[t] = ended
           /\ \A u \in Tokens \ {t} : sessions'[u] = sessions[u]
        BY <2>4, <2>9 DEF SessionsInv
    <2>12. sessions' \in [Tokens -> Sessions]
        BY <2>7, <2>9 DEF SessionsInv, Sessions
    <2>13. \A u \in Tokens : sessions[u] # NoSession =>
               /\ sessions'[u] # NoSession
               /\ sessions'[u].expires = sessions[u].expires
               /\ sessions[u].revoked => sessions'[u].revoked
        BY <2>7, <2>8, <2>11
    <2>14. /\ loggedOut \subseteq loggedOut' /\ loggedOut' \subseteq Tokens
           /\ \A u \in loggedOut' \ loggedOut :
                 sessions'[u] # NoSession /\ sessions'[u].revoked
        BY <2>4, <2>7, <2>8, <2>10, <2>11 DEF SessionsInv
    <2>15. QED
        BY <1>0, <2>10, <2>12, <2>13, <2>14, SessionsWritten
<1>4. CASE EndRequest(r)
    <2>1. /\ request' = [request EXCEPT ![r] = Idle]
          /\ UNCHANGED <<sessions, loggedOut>>
        BY <1>4 DEF EndRequest
    <2>2. QED
        BY <1>0, <2>1, NewRequest, RequestKinds
<1>5. QED
    BY <1>1, <1>2, <1>3, <1>4 DEF Handle

\* So does the arrival of a request, with whatever token.
LEMMA SessionsArrive ==
    ASSUME SessionsInv, NEW r \in Slots, UNCHANGED <<elapsed, setBack>>,
           \/ LoginArrives(r)
           \/ \E t \in Tokens, kind \in {"work", "logout"} :
                 CallArrives(r, kind, t, elapsed)
    PROVE  SessionsInv'
<1>1. CASE LoginArrives(r)
    BY <1>1, NewRequest, RequestKinds DEF LoginArrives
<1>2. ASSUME NEW t \in Tokens, NEW kind \in {"work", "logout"},
             CallArrives(r, kind, t, elapsed)
      PROVE  SessionsInv'
    <2>1. PICK out, over :
              /\ out = (t \in loggedOut)
              /\ over = (sessions[t] # NoSession /\ elapsed >= sessions[t].expires)
        OBVIOUS
    <2>2. out \in BOOLEAN /\ over \in BOOLEAN
        BY <2>1
    <2>3. PICK next : next = [at |-> "verify", kind |-> kind, token |-> t,
                              loggedOut |-> out, expired |-> over]
        OBVIOUS
    <2>4. /\ request' = [request EXCEPT ![r] = next]
          /\ UNCHANGED <<sessions, loggedOut>>
        BY <1>2, <2>1, <2>3 DEF CallArrives
    <2>5. next \in Calls /\ next.at = "verify" /\ next.token = t
        BY <2>2, <2>3 DEF Calls
    <2>6. next.loggedOut => t \in loggedOut
        BY <2>1, <2>3
    <2>7. next.expired => /\ sessions[t] # NoSession
                          /\ sessions[t].expires <= elapsed
        BY <2>1, <2>3
    <2>8. QED
        BY <2>4, <2>5, <2>6, <2>7, NewRequest, RequestKinds
<1>3. QED
    BY <1>1, <1>2

\* Requests end with the process, sessions do not.
LEMMA SessionsAfterStop ==
    ASSUME SessionsInv, RequestsLost
    PROVE  SessionsInv'
<1>1. request' \in [Slots -> Requests] /\ \A r \in Slots : request'[r] = Idle
    BY RequestKinds DEF RequestsLost
<1>2. \A r \in Slots : CallTruly(r)'
    BY <1>1, RequestKinds DEF CallTruly
<1>3. QED
    BY <1>1, <1>2 DEF SessionsInv, RequestsLost

\* A clock that is set back is never right again: no request of whom this is
\* said that the clock was right was let through otherwise.
LEMMA SessionsTick ==
    ASSUME SessionsInv, UNCHANGED sessionVars, ClockInv, ClockInv',
           elapsed <= elapsed', setBack <= setBack'
    PROVE  SessionsInv'
<1>1. /\ elapsed \in Nat /\ setBack \in Nat /\ elapsed' \in Nat /\ setBack' \in Nat
    BY ClockIsNat, NextElapsed
<1>2. ASSUME NEW r \in Slots
      PROVE  CallTruly(r)'
    <2>1. CallTruly(r)
        BY DEF SessionsInv
    <2>2. sessions' = sessions /\ request' = request /\ loggedOut' = loggedOut
        BY DEF sessionVars
    <2>3. setBack' = 0 => setBack = 0
        BY <1>1
    <2>4. ASSUME request[r] \in Calls, request[r].expired
          PROVE  sessions[request[r].token].expires <= elapsed'
        <3>1. /\ sessions[request[r].token] # NoSession
              /\ sessions[request[r].token].expires <= elapsed
            BY <2>1, <2>4 DEF CallTruly
        <3>2. sessions[request[r].token].expires \in Nat
            BY <2>4, <3>1 DEF SessionsInv, Sessions, Calls
        <3>3. QED
            BY <1>1, <3>1, <3>2
    <2>5. QED
        BY <2>1, <2>2, <2>3, <2>4 DEF CallTruly
<1>3. QED
    BY <1>2 DEF SessionsInv, sessionVars

-----------------------------------------------------------------------------
(* The process *)

Inv == StartupInv /\ LimiterInv /\ SessionsInv /\ ClockInv

\* The invariant holds before the first start.
LEMMA InvBegins ==
    ASSUME Init
    PROVE  Inv
<1>1. StartupInv
    BY StartupBegins DEF Init
<1>2. LimiterInv
    BY EmptyLimiter DEF Init, LimiterInit
<1>3. SessionsInv
    <2>1. /\ sessions = [t \in Tokens |-> NoSession]
          /\ request = [r \in Slots |-> Idle]
          /\ loggedOut = {}
        BY DEF Init, SessionsInit
    <2>2. \A r \in Slots : CallTruly(r)
        BY <2>1, RequestKinds DEF CallTruly
    <2>3. QED
        BY <2>1, <2>2, RequestKinds DEF SessionsInv, Sessions
<1>4. ClockInv
    BY MomentsAssumption, ElapsedTime DEF Init, ClockInv
<1>5. QED
    BY <1>1, <1>2, <1>3, <1>4 DEF Inv

\* What no step of a component does changes its invariant.
LEMMA LimiterStutters ==
    ASSUME LimiterInv, UNCHANGED <<limiterVars, elapsed, setBack>>
    PROVE  LimiterInv'
BY DEF LimiterInv, LimiterTypes, ClientInv, limiterVars

\* Steps of the other parts leave the sessions as they are.
LEMMA SessionsStutter ==
    ASSUME SessionsInv, UNCHANGED <<sessionVars, elapsed, setBack>>
    PROVE  SessionsInv'
BY DEF SessionsInv, CallTruly, sessionVars

\* And the tables of start-up.
LEMMA StartupStutters ==
    ASSUME StartupInv, UNCHANGED startupVars
    PROVE  StartupInv'
BY StartupKeeps

\* Every step of the process keeps the invariant.
LEMMA InvKept ==
    ASSUME Inv, [Next]_serverVars
    PROVE  Inv'
<1>1. StartupInv /\ LimiterInv /\ SessionsInv /\ ClockInv
    BY DEF Inv
<1>2. ASSUME UNCHANGED clockVars
      PROVE  ClockInv' /\ UNCHANGED <<elapsed, setBack>>
    BY <1>1, <1>2, ElapsedTime DEF ClockInv, clockVars
<1>3. CASE Start \/ ServingFails
    <2>1. StartupInv'
        BY <1>1, <1>3, StartupKeeps DEF Start, ServingFails
    <2>2. UNCHANGED <<limiterVars, sessionVars, clockVars>>
        BY <1>3 DEF Start, ServingFails
    <2>3. LimiterInv' /\ SessionsInv'
        BY <1>1, <1>2, <2>2, LimiterStutters, SessionsStutter
    <2>4. QED
        BY <1>2, <2>1, <2>2, <2>3 DEF Inv
<1>4. CASE Stop
    <2>1. StartupInv'
        BY <1>1, <1>4, StartupKeeps DEF Stop
    <2>2. SessionsInv'
        BY <1>1, <1>4, SessionsAfterStop DEF Stop
    <2>3. LimiterInv'
        <3>1. \A c \in Clients : ClientInv(c)'
            BY <1>4 DEF Stop, LimiterLost, ClientInv, SpentTruly, BoundedTimes,
                        ToldTruly
        <3>2. LimiterTypes'
            <4>1. <<>> \in Seq(Nat)
                OBVIOUS
            <4>2. QED
                BY <1>4, <4>1 DEF Stop, LimiterLost, LimiterTypes, Buckets
        <3>3. QED
            BY <3>1, <3>2 DEF LimiterInv
    <2>4. QED
        BY <1>2, <1>4, <2>1, <2>2, <2>3 DEF Stop, Inv
<1>5. CASE Tick \/ ClockSetForward
    <2>1. /\ now' \in Moments /\ advanced' \in Advances /\ setBack' = setBack
          /\ \/ now' > now /\ advanced' = advanced
             \/ now' = now /\ advanced' > advanced
          /\ UNCHANGED <<startupVars, limiterVars, sessionVars>>
        BY <1>1, <1>5 DEF Tick, ClockSetForward, ClockInv
    <2>2. /\ now' \in Nat /\ now \in Nat /\ setBack \in Nat
          /\ advanced' \in Nat /\ advanced \in Nat
        BY <1>1, <2>1, MomentsAssumption DEF ClockInv
    <2>3. /\ elapsed \in Nat /\ elapsed' \in Nat
          /\ elapsed <= elapsed' /\ elapsed' >= elapsed /\ setBack <= setBack'
        <3>1. now <= now' /\ advanced <= advanced'
            BY <2>1, <2>2
        <3>2. /\ now + advanced \in Nat /\ now' + advanced' \in Nat
              /\ now + advanced <= now' + advanced'
            BY <2>2, <3>1, SumsGrow
        <3>3. /\ elapsed \in Nat /\ elapsed' \in Nat /\ elapsed <= elapsed'
            BY <3>2, ElapsedTime
        <3>4. \A e, f \in Nat : e <= f => f >= e
            OBVIOUS
        <3>5. setBack <= setBack'
            BY <2>1, <2>2
        <3>6. QED
            BY <3>3, <3>4, <3>5
    <2>4. ClockInv'
        <3>1. setBack <= elapsed
            BY <1>1 DEF ClockInv
        <3>2. setBack' <= elapsed'
            <4>1. \A s, e, f \in Nat : s <= e /\ e <= f => s <= f
                OBVIOUS
            <4>2. QED
                BY <2>1, <2>2, <2>3, <3>1, <4>1
        <3>3. QED
            BY <1>1, <2>1, <3>2 DEF ClockInv
    <2>5. LimiterInv'
        BY <1>1, <2>1, <2>3, <2>4, LimiterTicks DEF limiterVars
    <2>6. SessionsInv'
        BY <1>1, <2>1, <2>3, <2>4, SessionsTick
    <2>7. StartupInv'
        BY <1>1, <2>1, StartupStutters
    <2>8. QED
        BY <2>4, <2>5, <2>6, <2>7 DEF Inv
<1>6. CASE ClockSetBack
    <2>1. /\ setBack' \in SetBacks /\ setBack' > setBack /\ setBack' <= elapsed
          /\ now' = now /\ advanced' = advanced
          /\ UNCHANGED <<startupVars, sessionVars>>
          /\ UNCHANGED <<buckets, admitted, refusals>>
          /\ told' = [c \in Clients |-> Never]
        BY <1>6 DEF ClockSetBack
    <2>2. /\ setBack' \in Nat /\ setBack \in Nat /\ elapsed \in Nat
          /\ elapsed' = elapsed
        BY <1>1, <2>1, MomentsAssumption, ClockIsNat, ElapsedTime DEF ClockInv
    <2>3. ClockInv'
        BY <1>1, <2>1, <2>2 DEF ClockInv
    <2>4. elapsed <= elapsed' /\ setBack <= setBack'
        BY <2>1, <2>2
    <2>5. LimiterInv'
        <3>1. setBack' >= setBack
            BY <2>1, <2>2
        <3>2. QED
            BY <1>1, <2>1, <2>2, <2>3, <3>1, LimiterTicks
    <2>6. SessionsInv'
        BY <1>1, <2>1, <2>3, <2>4, SessionsTick
    <2>7. StartupInv'
        BY <1>1, <2>1, StartupStutters
    <2>8. QED
        BY <2>3, <2>5, <2>6, <2>7 DEF Inv
<1>7. ASSUME NEW c \in Clients, Limited(c)
      PROVE  Inv'
    <2>1. /\ Refuse(c, elapsed, wall)
          /\ UNCHANGED <<startupVars, sessionVars, clockVars>>
        BY <1>7 DEF Limited
    <2>2. LimiterInv'
        BY <1>1, <1>2, <2>1, LimiterRefuses
    <2>3. StartupInv' /\ SessionsInv'
        BY <1>1, <1>2, <2>1, StartupStutters, SessionsStutter
    <2>4. QED
        BY <1>2, <2>1, <2>2, <2>3 DEF Inv
<1>8. ASSUME NEW c \in Clients, NEW r \in Slots, Arrive(c, r)
      PROVE  Inv'
    <2>1. /\ Admit(c, elapsed, wall)
          /\ UNCHANGED <<startupVars, clockVars>>
          /\ \/ LoginArrives(r)
             \/ \E t \in Tokens, kind \in {"work", "logout"} :
                   CallArrives(r, kind, t, elapsed)
        BY <1>8 DEF Arrive
    <2>2. LimiterInv'
        BY <1>1, <1>2, <2>1, LimiterAdmits
    <2>3. StartupInv' /\ SessionsInv'
        BY <1>1, <1>2, <2>1, StartupStutters, SessionsArrive
    <2>4. QED
        BY <1>2, <2>1, <2>2, <2>3 DEF Inv
<1>9. ASSUME NEW r \in Slots, Handle(r)
      PROVE  Inv'
    <2>1. UNCHANGED <<startupVars, limiterVars, clockVars>>
        BY <1>9 DEF Handle
    <2>2. SessionsInv'
        BY <1>1, <1>9, SessionsHandle
    <2>3. StartupInv' /\ LimiterInv'
        BY <1>1, <1>2, <2>1, StartupStutters, LimiterStutters
    <2>4. QED
        BY <1>2, <2>1, <2>2, <2>3 DEF Inv
<1>10. CASE UNCHANGED serverVars
    <2>1. UNCHANGED <<startupVars, limiterVars, sessionVars, clockVars>>
        BY <1>10 DEF serverVars
    <2>2. QED
        BY <1>1, <1>2, <2>1, StartupStutters, LimiterStutters, SessionsStutter
           DEF Inv
<1>11. QED
    BY <1>3, <1>4, <1>5, <1>6, <1>7, <1>8, <1>9, <1>10 DEF Next

\* The invariant holds throughout.
LEMMA InvHolds == Spec => []Inv
<1>1. Init => Inv
    BY InvBegins
<1>2. Inv /\ [Next]_serverVars => Inv'
    BY InvKept
<1>3. QED
    BY <1>1, <1>2, PTL DEF Spec

-----------------------------------------------------------------------------
(* What the runs check, for any number of clients, tokens, requests and      *)
(* plates, and any capacity, refill, lifetime of a session and clock.        *)

\* Buckets, sessions, requests and the tables that start-up writes have their
\* types, whenever the process is stopped.
THEOREM TypeCorrect == Spec => []TypeOK
<1>1. Inv => TypeOK
    <2>1. Inv => StartupTypeOK
        BY DEF Inv, StartupInv
    <2>2. Inv => LimiterTypeOK
        BY DEF Inv, LimiterInv, LimiterTypes, LimiterTypeOK, Buckets
    <2>3. Inv => /\ request \in [Slots -> Requests]
                 /\ \A t \in Tokens : sessions[t] # NoSession =>
                        /\ sessions[t].expires \in Nat
                        /\ sessions[t].revoked \in BOOLEAN
                 /\ loggedOut \subseteq Tokens
        BY DEF Inv, SessionsInv, Sessions
    <2>4. Inv => now \in Moments /\ advanced \in Advances /\ setBack \in SetBacks
        BY DEF Inv, ClockInv
    <2>5. QED
        BY <2>1, <2>2, <2>3, <2>4 DEF TypeOK
<1>2. QED
    BY <1>1, InvHolds, PTL

\* Migrate of src/internal/storage/sqlite/db.go: the record of migration 2 is
\* true and a process that came to listen has it, wherever earlier starts broke off.
THEOREM MigrationIsWhole == Spec => []MigratedWhole
<1>1. Inv => MigratedWhole
    BY DEF Inv, StartupInv, LeftByStatements, MigratedWhole
<1>2. QED
    BY <1>1, InvHolds, PTL

\* Start-up loses, merges and adds no vehicle of a fleet that clients have
\* begun, in any of its steps.
THEOREM FleetIsPreserved == Spec => FleetPreserved
<1>1. Inv /\ [Next]_serverVars => [FleetStep]_startupVars
    <2>1. ASSUME Inv, Start \/ ServingFails \/ Stop
          PROVE  FleetStep
        BY <2>1, FleetKept DEF Inv, Start, ServingFails, Stop
    <2>2. ASSUME Next, ~Start, ~ServingFails, ~Stop
          PROVE  UNCHANGED startupVars
        BY <2>2 DEF Next, Tick, ClockSetBack, ClockSetForward, Limited, Arrive, Handle
    <2>3. UNCHANGED serverVars => UNCHANGED startupVars
        BY DEF serverVars
    <2>4. QED
        BY <2>1, <2>2, <2>3
<1>2. [][FleetStep]_startupVars => FleetPreserved
    BY PTL DEF FleetPreserved, FleetStep
<1>3. QED
    BY <1>1, <1>2, InvHolds, PTL DEF Spec

\* ratelimit.Limiter: what one process admits of a client between any two
\* requests is bounded by a full bucket, the real time in between and what the
\* wall clock was set forward in between, however often it is set back.
THEOREM RateIsBounded == Spec => []RateBounded
<1>1. Inv => RateBounded
    <2>1. SUFFICES ASSUME Inv, NEW c \in Clients
                   PROVE  \A i, j \in DOMAIN admitted[c] :
                              i <= j => (j - i + 1) * TokenTicks
                                  <= Full + admitted[c][j] - admitted[c][i]
        BY DEF RateBounded
    <2>2. BoundedTimes(admitted[c]) /\ admitted[c] \in Seq(Nat)
        BY <2>1 DEF Inv, LimiterInv, LimiterTypes, ClientInv
    <2>3. DOMAIN admitted[c] = 1..Len(admitted[c])
        BY <2>2
    <2>4. QED
        BY <2>2, <2>3 DEF BoundedTimes
<1>2. QED
    BY <1>1, InvHolds, PTL

\* Retry-After of src/internal/middleware/limits.go, rounded as it is: a client
\* that comes back as it was told is refused at most once more.
THEOREM ObedientAreAdmitted == Spec => []ObedientAdmitted
<1>1. Inv => ObedientAdmitted
    <2>1. Inv => refusals \in [Clients -> {0, 1}]
        BY DEF Inv, LimiterInv, LimiterTypes
    <2>2. QED
        BY <2>1 DEF ObedientAdmitted
<1>2. QED
    BY <1>1, InvHolds, PTL

\* Authenticate and Logout of src/internal/service/auth: no request gets past
\* authentication that arrived after its token was logged out or had expired,
\* whatever races with it and across restarts.
THEOREM LiveSessionsOnly == Spec => []OnlyLiveSessionsTrusted
<1>1. Inv => OnlyLiveSessionsTrusted
    <2>1. SUFFICES ASSUME Inv, NEW r \in Slots, Trusted(r)
                   PROVE  /\ sessions[request[r].token] # NoSession
                          /\ ~request[r].loggedOut
                          /\ setBack = 0 => ~request[r].expired
        BY DEF OnlyLiveSessionsTrusted
    <2>2. request[r] \in Requests /\ CallTruly(r)
        BY <2>1 DEF Inv, SessionsInv
    <2>3. request[r].at \in {"work", "logout"}
        BY <2>1 DEF Trusted
    <2>4. request[r] \in Calls
        BY <2>2, <2>3, RequestKinds
    <2>5. QED
        BY <2>2, <2>3, <2>4 DEF CallTruly
<1>2. QED
    BY <1>1, InvHolds, PTL

=============================================================================
