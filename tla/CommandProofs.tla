--------------------------- MODULE CommandProofs ---------------------------
(***************************************************************************)
(* Proofs about Command and the ControlSocket inside of it, for any number *)
(* of daemons and commands, anything that is typed, any configuration file *)
(* and whatever the compositor offers.                                     *)
(***************************************************************************)
EXTENDS Command, SequenceTheorems, WellFoundedInduction, TLAPS

Spec == Init /\ [][Next]_vars

(* The socket: who is alive, and what that says of the path.               *)

Exclusive == \A d, e \in Daemons :
                 daemon[d] \in Socket!Alive /\ daemon[e] \in Socket!Alive => d = e

PathKnown == \A d \in Daemons :
    /\ daemon[d] = "binding" => path = Socket!Nobody
    /\ daemon[d] \in {"listening", "up"} => path = d
    /\ daemon[d] = "deaf" => refused

SocketInv == Socket!TypeOK /\ (~overlapped => Exclusive /\ PathKnown)

SocketStep == Socket!Next \/ UNCHANGED socketVars

LEMMA SocketInit == Init => SocketInv
BY DEF Init, SocketInv, Exclusive, PathKnown, Socket!Init, Socket!TypeOK,
       Socket!Where, Socket!Alive, Socket!Up

(* What a step of any daemon leaves of the types.                          *)
LEMMA SocketTypes == Socket!TypeOK /\ SocketStep => Socket!TypeOK'
<1> SUFFICES ASSUME Socket!TypeOK, SocketStep PROVE Socket!TypeOK'
  OBVIOUS
<1> USE DEF Socket!TypeOK, Socket!Where, Socket!Alive, Socket!Goes
<1>1. CASE UNCHANGED socketVars
  BY <1>1 DEF socketVars
<1>2. ASSUME NEW d \in Daemons, Socket!StartUp(d) PROVE Socket!TypeOK'
  BY <1>2 DEF Socket!StartUp
<1>3. ASSUME NEW d \in Daemons, Socket!NoOverlay(d) PROVE Socket!TypeOK'
  BY <1>3 DEF Socket!NoOverlay
<1>4. ASSUME NEW d \in Daemons, Socket!RemoveStale(d) PROVE Socket!TypeOK'
  BY <1>4 DEF Socket!RemoveStale
<1>5. ASSUME NEW d \in Daemons, Socket!Bind(d) PROVE Socket!TypeOK'
  BY <1>5 DEF Socket!Bind
<1>6. ASSUME NEW d \in Daemons, Socket!Listen(d) PROVE Socket!TypeOK'
  BY <1>6 DEF Socket!Listen
<1>7. ASSUME NEW d \in Daemons, Socket!Refused(d) PROVE Socket!TypeOK'
  BY <1>7 DEF Socket!Refused
<1>8. ASSUME NEW d \in Daemons, Socket!Leave(d) PROVE Socket!TypeOK'
  BY <1>8 DEF Socket!Leave, Socket!Up
<1>9. ASSUME NEW d \in Daemons, Socket!Killed(d) PROVE Socket!TypeOK'
  BY <1>9 DEF Socket!Killed
<1>10. QED
  BY <1>1, <1>2, <1>3, <1>4, <1>5, <1>6, <1>7, <1>8, <1>9
     DEF SocketStep, Socket!Next, Socket!Binds

(* As long as no two daemons have been alive at a time, the one that is has *)
(* the path for itself.                                                    *)
LEMMA SocketAlone == SocketInv /\ SocketStep => SocketInv'
<1> SUFFICES ASSUME SocketInv, SocketStep, ~overlapped'
             PROVE  Exclusive' /\ PathKnown'
  BY SocketTypes DEF SocketInv
<1> USE DEF SocketInv, Exclusive, PathKnown, Socket!TypeOK, Socket!Where, Socket!Alive,
            Socket!Goes
<1>1. CASE UNCHANGED socketVars
  BY <1>1 DEF socketVars
<1>2. ASSUME NEW d \in Daemons, Socket!StartUp(d) PROVE Exclusive' /\ PathKnown'
  <2>1. ~overlapped /\ \A e \in Daemons \ {d} : daemon[e] \notin Socket!Alive
    BY <1>2 DEF Socket!StartUp
  <2>2. \A e \in Daemons \ {d} : daemon'[e] = daemon[e]
    BY <1>2 DEF Socket!StartUp
  <2>3. daemon'[d] = "removing"
    BY <1>2 DEF Socket!StartUp
  <2>4. QED
    BY <1>2, <2>1, <2>2, <2>3 DEF Socket!StartUp
<1>3. ASSUME NEW d \in Daemons, Socket!NoOverlay(d) PROVE Exclusive' /\ PathKnown'
  BY <1>3 DEF Socket!NoOverlay
<1>4. ASSUME NEW d \in Daemons, Socket!RemoveStale(d) PROVE Exclusive' /\ PathKnown'
  BY <1>4 DEF Socket!RemoveStale
<1>5. ASSUME NEW d \in Daemons, Socket!Bind(d) PROVE Exclusive' /\ PathKnown'
  BY <1>5 DEF Socket!Bind
<1>6. ASSUME NEW d \in Daemons, Socket!Listen(d) PROVE Exclusive' /\ PathKnown'
  BY <1>6 DEF Socket!Listen
<1>7. ASSUME NEW d \in Daemons, Socket!Refused(d) PROVE Exclusive' /\ PathKnown'
  BY <1>7 DEF Socket!Refused
<1>8. ASSUME NEW d \in Daemons, Socket!Leave(d) PROVE Exclusive' /\ PathKnown'
  BY <1>8 DEF Socket!Leave, Socket!Up
<1>9. ASSUME NEW d \in Daemons, Socket!Killed(d) PROVE Exclusive' /\ PathKnown'
  BY <1>9 DEF Socket!Killed
<1>10. QED
  BY <1>1, <1>2, <1>3, <1>4, <1>5, <1>6, <1>7, <1>8, <1>9
     DEF SocketStep, Socket!Next, Socket!Binds

(* Only the end of a daemon that has bound the path removes it; that of one *)
(* that never did, or is killed, leaves it alone.                          *)
LEMMA SocketLeftAlone ==
    ASSUME Socket!TypeOK, SocketStep, NEW e \in Daemons,
           daemon[e] \in {"new", "deaf"}, daemon'[e] = "over"
    PROVE  path' = path
<1> USE DEF Socket!TypeOK, Socket!Where, Socket!Alive, Socket!Goes
<1>1. ASSUME NEW d \in Daemons, Socket!StartUp(d) \/ Socket!Binds(d) PROVE FALSE
  BY <1>1 DEF Socket!StartUp, Socket!Binds, Socket!RemoveStale, Socket!Bind, Socket!Listen
<1>2. ASSUME NEW d \in Daemons, Socket!Leave(d) PROVE path' = path
  <2>1. d = e
    BY <1>2 DEF Socket!Leave
  <2>2. QED
    BY <1>2, <2>1 DEF Socket!Leave, Socket!Up
<1>3. ASSUME NEW d \in Daemons, Socket!NoOverlay(d) \/ Socket!Refused(d) \/ Socket!Killed(d)
      PROVE  path' = path
  BY <1>3 DEF Socket!NoOverlay, Socket!Refused, Socket!Killed
<1>4. QED
  BY <1>1, <1>2, <1>3 DEF SocketStep, Socket!Next, socketVars

----------------------------------------------------------------------------
(* A daemon that is over stays so.                                         *)
LEMMA OverForGood ==
    ASSUME Socket!TypeOK, SocketStep, NEW e \in Daemons, daemon[e] = "over"
    PROVE  daemon'[e] = "over"
<1> USE DEF Socket!TypeOK, Socket!Goes, Socket!Up, Socket!Alive
<1>1. ASSUME NEW d \in Daemons, Socket!StartUp(d) \/ Socket!NoOverlay(d) \/ Socket!Binds(d)
      PROVE  daemon'[e] = "over"
  BY <1>1 DEF Socket!StartUp, Socket!NoOverlay, Socket!Binds, Socket!RemoveStale,
              Socket!Bind, Socket!Listen
<1>2. ASSUME NEW d \in Daemons, Socket!Refused(d) \/ Socket!Leave(d) \/ Socket!Killed(d)
      PROVE  daemon'[e] = "over"
  BY <1>2 DEF Socket!Refused, Socket!Leave, Socket!Killed
<1>3. QED
  BY <1>1, <1>2 DEF SocketStep, Socket!Next, socketVars

(* What a daemon does of a request is at most to end.                      *)
LEMMA EndPhaseEnds ==
    ASSUME NEW d \in Daemons, EndPhase(d)
    PROVE  Socket!Killed(d) \/ UNCHANGED socketVars
BY DEF EndPhase

LEMMA HandleEnds ==
    ASSUME NEW d \in Daemons, NEW r, Handle(d, r)
    PROVE  Socket!Killed(d) \/ UNCHANGED socketVars
BY EndPhaseEnds DEF Handle

(* Every step of the whole is one of the socket, or leaves it alone.       *)
LEMMA StepOfSocket == [Next]_vars => SocketStep
<1> SUFFICES ASSUME [Next]_vars PROVE SocketStep
  OBVIOUS
<1> USE DEF SocketStep, Socket!Next
<1>1. ASSUME NEW d \in Daemons, Launch(d) PROVE SocketStep
  BY <1>1 DEF Launch
<1>2. ASSUME NEW d \in Daemons, Binds(d) PROVE SocketStep
  BY <1>2 DEF Binds
<1>3. ASSUME NEW d \in Daemons, Tick(d) PROVE SocketStep
  BY <1>3, EndPhaseEnds DEF Tick
<1>4. ASSUME NEW d \in Daemons, Serve(d) PROVE SocketStep
  <2>1. PICK c \in Clients : Handle(d, client[c].request)
    BY <1>4 DEF Serve
  <2>2. QED
    BY <2>1, HandleEnds
<1>5. ASSUME NEW d \in Daemons, Ends(d) PROVE SocketStep
  BY <1>5 DEF Ends
<1>6. ASSUME NEW c \in Clients, Ask(c) \/ Reject(c) \/ HungUp(c) PROVE SocketStep
  BY <1>6 DEF Ask, Reject, HungUp, socketVars
<1>7. CASE UNCHANGED vars
  BY <1>7 DEF vars, socketVars
<1>8. QED
  BY <1>1, <1>2, <1>3, <1>4, <1>5, <1>6, <1>7 DEF Next

(* The types and the path, in every state of the program.                  *)
THEOREM SocketInvariant == Spec => []SocketInv
<1>1. SocketInv /\ [Next]_vars => SocketInv'
  BY StepOfSocket, SocketAlone
<1>2. QED
  BY SocketInit, <1>1, PTL DEF Spec

(* Crash and restart: a daemon that is alone can be reached, whatever those *)
(* before it have left at the path.                                        *)
THEOREM AloneReachable == Spec => []AloneIsReachable
<1>1. SocketInv => AloneIsReachable
  BY DEF SocketInv, PathKnown, AloneIsReachable, Socket!AloneIsReachable, Socket!Reaches
<1>2. QED
  BY SocketInvariant, <1>1, PTL

(* A daemon that never had the socket leaves it to the one that has.       *)
THEOREM UnservedLeaves == Spec => UnservedLeavesSocket
<1>1. SocketInv /\ [Next]_vars =>
        [ \A d \in Daemons :
            daemon[d] \in {"new", "deaf"} /\ daemon'[d] = "over" => path' = path ]_socketVars
  BY StepOfSocket, SocketLeftAlone DEF SocketInv
<1>2. QED
  BY SocketInvariant, <1>1, PTL DEF Spec, UnservedLeavesSocket, Socket!UnservedLeavesSocket,
     Socket!vars, socketVars

----------------------------------------------------------------------------
(* Induction.  The library's theorem takes a predicate, which cannot be    *)
(* instantiated; that < on Nat is well-founded can be cited, and a set     *)
(* does for the predicate.                                                 *)

Less == {ss \in Nat \X Nat : ss[1] < ss[2]}

LEMMA LessIsWellFounded == IsWellFoundedOn(Less, Nat)
BY NatLessThanWellFounded DEF OpToRel, Less

LEMMA SetInduction ==
    ASSUME NEW A \in SUBSET Nat, 0 \in A, \A n \in A : n + 1 \in A
    PROVE  A = Nat
<1>1. SUFFICES ASSUME Nat \ A # {} PROVE FALSE
  OBVIOUS
<1>2. PICK x \in Nat \ A : \A y \in Nat \ A : ~(<<y, x>> \in Less)
  BY <1>1, LessIsWellFounded, WFMin
<1>3. x # 0 /\ x - 1 \in Nat
  BY <1>2
<1>4. <<x - 1, x>> \in Less
  BY <1>2, <1>3 DEF Less
<1>5. x - 1 \in A
  BY <1>2, <1>3, <1>4
<1>6. QED
  BY <1>2, <1>3, <1>5

(* The greatest of a set of positions.                                     *)
LEMMA MaxIs ==
    ASSUME NEW S, NEW m \in S, \A j \in S : j \in Int /\ j <= m
    PROVE  Max(S) = m
<1> DEFINE q == CHOOSE x \in S : \A y \in S : x >= y
<1>1. q \in S /\ \A y \in S : q >= y
  BY Zenon
<1>2. Max(S) = q
  BY DEF Max
<1> HIDE DEF q
<1>3. QED
  BY <1>1, <1>2

LEMMA MinIs ==
    ASSUME NEW S, NEW m \in S, \A j \in S : j \in Int /\ m <= j
    PROVE  Min(S) = m
<1> DEFINE q == CHOOSE x \in S : \A y \in S : x =< y
<1>1. q \in S /\ \A y \in S : q =< y
  BY Zenon
<1>2. Min(S) = q
  BY DEF Min
<1> HIDE DEF q
<1>3. QED
  BY <1>1, <1>2

----------------------------------------------------------------------------
(* The loops of parse_cli and of Config::load, one turn after the other.   *)

Argument == STRING \X STRING

\* The next turn: of parse_cli, or of load on the n-th of its lines.
Onward(parses, lines, x, n) == IF parses THEN Turn(x) ELSE Apply(x, lines[n])

IsLoop(f, parses, lines, x, k) ==
    f = [n \in 0..k |-> IF n = 0 THEN x ELSE Onward(parses, lines, f[n - 1], n)]

LEMMA LoopExists ==
    ASSUME NEW parses, NEW lines, NEW x, NEW k \in Nat
    PROVE  \E f : IsLoop(f, parses, lines, x, k)
<1> DEFINE A == {n \in Nat : \E f : IsLoop(f, parses, lines, x, n)}
<1>1. 0 \in A
  <2> DEFINE f == [n \in 0..0 |-> x]
  <2>1. IsLoop(f, parses, lines, x, 0)
    BY DEF IsLoop
  <2> HIDE DEF f
  <2>2. QED
    BY <2>1
<1>2. ASSUME NEW m \in A PROVE m + 1 \in A
  <2>1. PICK f : IsLoop(f, parses, lines, x, m)
    OBVIOUS
  <2> DEFINE g == [n \in 0..(m + 1) |->
                      IF n = m + 1 THEN Onward(parses, lines, f[m], n) ELSE f[n]]
             h == [n \in 0..(m + 1) |->
                      IF n = 0 THEN x ELSE Onward(parses, lines, g[n - 1], n)]
  <2>2. f = [n \in 0..m |-> IF n = 0 THEN x ELSE Onward(parses, lines, f[n - 1], n)]
    BY <2>1 DEF IsLoop
  <2>3. ASSUME NEW n \in 0..(m + 1) PROVE g[n] = h[n]
    <3>1. CASE n = 0
      BY <2>2, <3>1
    <3>2. CASE n = m + 1
      BY <3>2
    <3>3. CASE n \in 1..m
      <4>1. n \in 0..m /\ n # 0 /\ n # m + 1 /\ n - 1 \in 0..(m + 1) /\ n - 1 # m + 1
        BY <3>3
      <4>2. g[n] = f[n] /\ g[n - 1] = f[n - 1]
        BY <4>1
      <4>3. f[n] = Onward(parses, lines, f[n - 1], n)
        BY <2>2, <4>1
      <4>4. h[n] = Onward(parses, lines, g[n - 1], n)
        BY <4>1
      <4>5. QED
        BY <4>2, <4>3, <4>4
    <3>4. QED
      BY <3>1, <3>2, <3>3
  <2>4. g = h
    BY <2>3
  <2>5. IsLoop(g, parses, lines, x, m + 1)
    BY <2>4 DEF IsLoop
  <2> HIDE DEF g
  <2>6. QED
    BY <2>5
<1>3. A = Nat
  <2> HIDE DEF A
  <2>1. A \in SUBSET Nat
    BY DEF A
  <2>2. QED
    BY <1>1, <1>2, <2>1, SetInduction
<1>4. QED
  BY <1>3

LEMMA TurnsDef ==
    ASSUME NEW args \in Seq(Argument)
    PROVE  /\ Turns(args)[0] = [args |-> args, result |-> NewCliResult]
           /\ \A n \in 1..Len(args) : Turns(args)[n] = Turn(Turns(args)[n - 1])
<1>1. Len(args) \in Nat
  BY LenProperties
<1> DEFINE x == [args |-> args, result |-> NewCliResult]
           R == CHOOSE f : IsLoop(f, TRUE, args, x, Len(args))
<1>2. Turns(args) = R
  BY DEF Turns, IsLoop, Onward
<1>3. IsLoop(R, TRUE, args, x, Len(args))
  BY <1>1, LoopExists
<1> HIDE DEF R
<1>4. QED
  BY <1>1, <1>2, <1>3 DEF IsLoop, Onward

LEMMA LoadedDef ==
    ASSUME NEW lines \in Seq(Argument)
    PROVE  /\ Loaded(lines)[0] = Defaults
           /\ \A n \in 1..Len(lines) : Loaded(lines)[n] = Apply(Loaded(lines)[n - 1], lines[n])
<1>1. Len(lines) \in Nat
  BY LenProperties
<1> DEFINE R == CHOOSE f : IsLoop(f, FALSE, lines, Defaults, Len(lines))
<1>2. Loaded(lines) = R
  BY DEF Loaded, IsLoop, Onward
<1>3. IsLoop(R, FALSE, lines, Defaults, Len(lines))
  BY <1>1, LoopExists
<1> HIDE DEF R
<1>4. QED
  BY <1>1, <1>2, <1>3 DEF IsLoop, Onward

\* What the first n lines say of k.
Said(lines, n, k) ==
    LET at == {m \in 1..n : lines[m][1] = k}
    IN  IF at = {} THEN Defaults[k] ELSE Meaning(k, lines[Max(at)][2])

LEMMA NextLine ==
    ASSUME NEW lines, NEW n \in Nat, NEW k
    PROVE  Said(lines, n + 1, k) = IF lines[n + 1][1] = k THEN Meaning(k, lines[n + 1][2])
                                   ELSE Said(lines, n, k)
<1> DEFINE at(m) == {l \in 1..m : lines[l][1] = k}
<1>1. CASE lines[n + 1][1] = k
  <2>1. n + 1 \in at(n + 1) /\ \A j \in at(n + 1) : j \in Int /\ j <= n + 1
    BY <1>1
  <2> HIDE DEF at
  <2>2. Max(at(n + 1)) = n + 1 /\ at(n + 1) # {}
    BY <2>1, MaxIs
  <2>3. Said(lines, n + 1, k) = Meaning(k, lines[Max(at(n + 1))][2])
    BY <2>2 DEF Said, at
  <2>4. QED
    BY <1>1, <2>2, <2>3
<1>2. CASE lines[n + 1][1] # k
  <2>1. at(n + 1) = at(n)
    BY <1>2
  <2>2. Said(lines, n + 1, k) = Said(lines, n, k)
    BY <2>1 DEF Said
  <2>3. QED
    BY <1>2, <2>2
<1>3. QED
  BY <1>1, <1>2

(* Config::load: of the lines with a key the last one decides, and what    *)
(* has a key nobody knows changes nothing.                                 *)
LEMMA LastLineDecides ==
    ASSUME NEW lines \in Seq(Argument)
    PROVE  ConfigLoad(lines) = [k \in DOMAIN Defaults |-> InFile(lines, k)]
<1> DEFINE L == Loaded(lines)
           A == {n \in Nat : n <= Len(lines) =>
                    L[n] = [k \in DOMAIN Defaults |-> Said(lines, n, k)]}
<1>0. Len(lines) \in Nat
  BY LenProperties
<1>1. 0 \in A
  <2>1. \A k : Said(lines, 0, k) = Defaults[k]
    BY DEF Said
  <2>2. Defaults = [k \in DOMAIN Defaults |-> Defaults[k]]
    BY DEF Defaults
  <2>3. L[0] = Defaults
    BY LoadedDef
  <2>4. L[0] = [k \in DOMAIN Defaults |-> Said(lines, 0, k)]
    BY <2>1, <2>2, <2>3
  <2>5. QED
    BY <2>4
<1>2. ASSUME NEW n \in A PROVE n + 1 \in A
  <2> SUFFICES ASSUME n + 1 <= Len(lines)
               PROVE  L[n + 1] = [k \in DOMAIN Defaults |-> Said(lines, n + 1, k)]
    OBVIOUS
  <2>1. L[n] = [k \in DOMAIN Defaults |-> Said(lines, n, k)]
    BY <1>0
  <2>2. L[n + 1] = Apply(L[n], lines[n + 1])
    <3>1. n + 1 \in 1..Len(lines) /\ (n + 1) - 1 = n
      BY <1>0
    <3>2. L[n + 1] = Apply(L[(n + 1) - 1], lines[n + 1])
      BY <3>1, LoadedDef
    <3>3. QED
      BY <3>1, <3>2
  <2>3. lines[n + 1] \in Argument
    BY <1>0, ElementOfSeq
  <2> DEFINE l == lines[n + 1]
  <2>4. \A k : Said(lines, n + 1, k) = IF l[1] = k THEN Meaning(k, l[2]) ELSE Said(lines, n, k)
    BY NextLine
  <2> HIDE DEF l, L
  <2>5. CASE l[1] \in DOMAIN Defaults
    <3>1. L[n + 1] = [L[n] EXCEPT ![l[1]] = Meaning(l[1], l[2])]
      BY <2>2, <2>5 DEF Apply, l
    <3>2. QED
      BY <2>1, <2>4, <2>5, <3>1
  <2>6. CASE l[1] \notin DOMAIN Defaults
    <3>1. L[n + 1] = L[n]
      BY <2>2, <2>6 DEF Apply, l
    <3>2. QED
      BY <2>1, <2>4, <2>6, <3>1
  <2>7. QED
    BY <2>5, <2>6
<1>3. A = Nat
  <2> HIDE DEF A
  <2>1. A \in SUBSET Nat
    BY DEF A
  <2>2. QED
    BY <1>1, <1>2, <2>1, SetInduction
<1>4. L[Len(lines)] = [k \in DOMAIN Defaults |-> Said(lines, Len(lines), k)]
  <2>1. Len(lines) \in A
    <3> HIDE DEF A
    <3>1. QED
      BY <1>0, <1>3
  <2> HIDE DEF L
  <2>2. QED
    BY <1>0, <2>1
<1>5. \A k : Said(lines, Len(lines), k) = InFile(lines, k)
  BY <1>0, LenProperties DEF Said, InFile
<1>6. QED
  BY <1>4, <1>5 DEF ConfigLoad

----------------------------------------------------------------------------
(* Which arguments are read, and what they say.                            *)

\* The right-hand side of IsRead.
Due(args, read, i) ==
    \/ i = 1
    \/ i - 1 \in read /\ ~Takes(args, i - 1)
    \/ i - 2 \in read /\ Takes(args, i - 2)

LEMMA ReadExists ==
    ASSUME NEW args \in Seq(Argument)
    PROVE  Read(args) \in SUBSET (1..Len(args)) /\ IsRead(args, Read(args))
<1>0. Len(args) \in Nat /\ DOMAIN args = 1..Len(args)
  BY LenProperties
<1> DEFINE A == {n \in Nat : \E read \in SUBSET (1..n) :
                                \A i \in 1..n : i \in read <=> Due(args, read, i)}
<1>1. 0 \in A
  <2>1. {} \in SUBSET (1..0) /\ 1..0 = {}
    OBVIOUS
  <2>2. QED
    BY <2>1
<1>2. ASSUME NEW n \in A PROVE n + 1 \in A
  <2>1. PICK read \in SUBSET (1..n) : \A i \in 1..n : i \in read <=> Due(args, read, i)
    OBVIOUS
  <2> DEFINE more == IF Due(args, read, n + 1) THEN read \cup {n + 1} ELSE read
  <2>2. /\ more \in SUBSET (1..(n + 1))
        /\ \A j \in 1..n : j \in more <=> j \in read
        /\ n + 1 \in more <=> Due(args, read, n + 1)
        /\ \A j \in more \cup read : j \in 1..(n + 1)
    <3>1. n \in Nat /\ read \in SUBSET (1..n) /\ n + 1 \notin read
      OBVIOUS
    <3>2. QED
      BY <3>1
  <2> HIDE DEF more
  <2>3. ASSUME NEW i \in 1..(n + 1)
        PROVE  Due(args, more, i) <=> Due(args, read, i)
    <3>1. i - 1 \in more <=> i - 1 \in read
      BY <2>2
    <3>2. i - 2 \in more <=> i - 2 \in read
      BY <2>2
    <3>3. QED
      BY <3>1, <3>2 DEF Due
  <2>4. \A i \in 1..(n + 1) : i \in more <=> Due(args, more, i)
    BY <2>1, <2>2, <2>3
  <2>5. \E r \in SUBSET (1..(n + 1)) : \A i \in 1..(n + 1) : i \in r <=> Due(args, r, i)
    BY <2>2, <2>4
  <2>6. n + 1 \in Nat
    OBVIOUS
  <2>7. QED
    BY <2>5, <2>6, Zenon
<1>3. A = Nat
  <2> HIDE DEF A
  <2>1. A \in SUBSET Nat
    BY DEF A
  <2>2. QED
    BY <1>1, <1>2, <2>1, SetInduction
<1>4. \E read \in SUBSET DOMAIN args : IsRead(args, read)
  BY <1>0, <1>3 DEF IsRead, Due
<1>5. QED
  BY <1>0, <1>4 DEF Read

\* What the argument at i says of the flag it names.
ValueAt(args, i) == IF args[i][2] = None THEN Text(args[i + 1]) ELSE args[i][2]

LEMMA LastAdds ==
    ASSUME NEW args, NEW i \in Nat, NEW S \in SUBSET (1..(i - 1)), NEW names
    PROVE  /\ args[i][1] \in names =>
                LastOf(args, S \cup {i}, names, "") = ValueAt(args, i)
           /\ args[i][1] \notin names =>
                LastOf(args, S \cup {i}, names, "") = LastOf(args, S, names, "")
           /\ Given(args, S \cup {i}, names) = {} <=>
                args[i][1] \notin names /\ Given(args, S, names) = {}
<1> DEFINE G == Given(args, S \cup {i}, names)
<1>1. CASE args[i][1] \in names
  <2>1. i \in G /\ \A j \in G : j \in Int /\ j <= i
    BY <1>1 DEF Given
  <2>2. Max(G) = i /\ G # {}
    <3> HIDE DEF G
    <3>1. QED
      BY <2>1, MaxIs
  <2>3. QED
    BY <1>1, <2>2 DEF LastOf, ValueAt
<1>2. CASE args[i][1] \notin names
  <2>1. G = Given(args, S, names)
    BY <1>2 DEF Given
  <2>2. QED
    BY <1>2, <2>1 DEF LastOf
<1>3. QED
  BY <1>1, <1>2

LEMMA VerbsAdd ==
    ASSUME NEW args, NEW i \in Nat, NEW S \in SUBSET (1..(i - 1))
    PROVE  IF args[i][1] \in ValueFlags
           THEN Verbs(args, S \cup {i}) = Verbs(args, S)
           ELSE Verbs(args, S \cup {i}) # {} /\ Max(Verbs(args, S \cup {i})) = i
<1> DEFINE V == Verbs(args, S \cup {i})
<1>1. CASE args[i][1] \in ValueFlags
  BY <1>1 DEF Verbs
<1>2. CASE args[i][1] \notin ValueFlags
  <2>1. i \in V /\ \A j \in V : j \in Int /\ j <= i
    BY <1>2 DEF Verbs
  <2>2. Max(V) = i /\ V # {}
    <3> HIDE DEF V
    <3>1. QED
      BY <2>1, MaxIs
  <2>3. QED
    BY <1>2, <2>2
<1>3. QED
  BY <1>1, <1>2

ActionAt(args, v) ==
    IF args[v][1] \in DOMAIN VerbAction THEN VerbAction[args[v][1]]
    ELSE IF Takes(args, v) THEN "ForwardToDaemon" ELSE "RunDaemon"

RequestAt(args, v) ==
    IF args[v][1] \in DOMAIN VerbRequest THEN VerbRequest[args[v][1]]
    ELSE "pomodoro:" \o Text(args[v + 1])

NumberOf(args, S, f) ==
    IF Given(args, S, {f}) = {} THEN -1 ELSE Atoi(LastOf(args, S, {f}, ""))

\* r is what the arguments at S say.
Says(args, S, r) ==
    /\ r = [action |-> r.action, request |-> r.request, path |-> r.path,
            autostart |-> r.autostart, number |-> r.number, corner |-> r.corner]
    /\ r.number = [f \in NumberFlags |-> NumberOf(args, S, f)]
    /\ r.path = LastOf(args, S, PathFlags, "")
    /\ r.corner = LastOf(args, S, {"--focus-corner"}, "")
    /\ r.autostart \in BOOLEAN /\ (r.autostart <=> \E j \in S : Starts(args, j))
    /\ r.action = IF Verbs(args, S) = {} THEN "RunDaemon"
                  ELSE ActionAt(args, Max(Verbs(args, S)))
    /\ r.action = "ForwardToDaemon" =>
          /\ Verbs(args, S) # {}
          /\ r.request = RequestAt(args, Max(Verbs(args, S)))

\* What the argument at i, which is good, adds to that.
OneMore(args, i, r) ==
    IF args[i][1] \in ValueFlags THEN Store(r, args[i][1], ValueAt(args, i))
    ELSE IF args[i][1] = "pomodoro" /\ Takes(args, i)
    THEN [r EXCEPT !.action = "ForwardToDaemon",
                   !.request = "pomodoro:" \o Text(args[i + 1])]
    ELSE IF args[i][1] \in {"--pomodoro", "pomodoro"} THEN Autostart(r)
    ELSE Verb(r, args[i][1])

LEMMA NothingSaid ==
    ASSUME NEW args
    PROVE  Says(args, {}, NewCliResult)
BY DEF Says, NewCliResult, NumberOf, Given, LastOf, Verbs

LEMMA SaysMore ==
    ASSUME NEW args, NEW i \in Nat, NEW S \in SUBSET (1..(i - 1)), NEW r,
           Says(args, S, r), Good(args, i)
    PROVE  Says(args, S \cup {i}, OneMore(args, i, r))
<1> DEFINE w == args[i][1]
           T == S \cup {i}
           q == OneMore(args, i, r)
<1> SUFFICES Says(args, T, q)
  OBVIOUS
<1>0. ASSUME NEW names
      PROVE  /\ w \in names => LastOf(args, T, names, "") = ValueAt(args, i)
             /\ w \notin names => LastOf(args, T, names, "") = LastOf(args, S, names, "")
             /\ Given(args, T, names) = {} <=> w \notin names /\ Given(args, S, names) = {}
  BY LastAdds
<1>1. r = [action |-> r.action, request |-> r.request, path |-> r.path,
           autostart |-> r.autostart, number |-> r.number, corner |-> r.corner]
  BY DEF Says
<1>2. CASE w \in ValueFlags
  <2>1. q = Store(r, w, ValueAt(args, i))
    BY <1>2 DEF OneMore
  <2>2. /\ Verbs(args, T) = Verbs(args, S)
        /\ (\E j \in T : Starts(args, j)) <=> (\E j \in S : Starts(args, j))
    BY <1>2, VerbsAdd DEF Starts, Is, ValueFlags, NumberFlags, PathFlags
  <2>3. /\ LastOf(args, T, PathFlags, "") =
             IF w \in PathFlags THEN ValueAt(args, i) ELSE r.path
        /\ LastOf(args, T, {"--focus-corner"}, "") =
             IF w = "--focus-corner" THEN ValueAt(args, i) ELSE r.corner
    BY <1>0 DEF Says
  <2>4. ASSUME NEW f \in NumberFlags
        PROVE  NumberOf(args, T, f) = IF w = f THEN Atoi(ValueAt(args, i)) ELSE r.number[f]
    <3>1. LastOf(args, T, {f}, "") =
             IF w = f THEN ValueAt(args, i) ELSE LastOf(args, S, {f}, "")
      BY <1>0
    <3>2. Given(args, T, {f}) = {} <=> w # f /\ Given(args, S, {f}) = {}
      BY <1>0
    <3>3. r.number[f] = NumberOf(args, S, f)
      BY DEF Says
    <3>4. QED
      BY <3>1, <3>2, <3>3 DEF NumberOf
  <2>5. /\ w \in PathFlags => q = [r EXCEPT !.path = ValueAt(args, i)]
        /\ w = "--focus-corner" => q = [r EXCEPT !.corner = ValueAt(args, i)]
        /\ w \in NumberFlags =>
             q = [r EXCEPT !.number = [@ EXCEPT ![w] = Atoi(ValueAt(args, i))]]
    BY <2>1 DEF Store, PathFlags, NumberFlags
  <2>6. /\ q.action = r.action /\ q.request = r.request /\ q.autostart = r.autostart
        /\ q = [action |-> q.action, request |-> q.request, path |-> q.path,
                autostart |-> q.autostart, number |-> q.number, corner |-> q.corner]
        /\ q.path = IF w \in PathFlags THEN ValueAt(args, i) ELSE r.path
        /\ q.corner = IF w = "--focus-corner" THEN ValueAt(args, i) ELSE r.corner
        /\ q.number = IF w \in NumberFlags
                      THEN [r.number EXCEPT ![w] = Atoi(ValueAt(args, i))] ELSE r.number
    <3> HIDE DEF q
    <3>1. QED
      BY <1>1, <1>2, <2>5 DEF ValueFlags, PathFlags, NumberFlags
  <2>7. q.number = [f \in NumberFlags |-> NumberOf(args, T, f)]
    <3>1. r.number = [f \in NumberFlags |-> r.number[f]]
      BY DEF Says
    <3> HIDE DEF q, w
    <3>2. QED
      BY <2>4, <2>6, <3>1
  <2> HIDE DEF q, T
  <2>8. QED
    BY <2>2, <2>3, <2>6, <2>7 DEF Says
<1>3. CASE w \notin ValueFlags
  <2>1. Verbs(args, T) # {} /\ Max(Verbs(args, T)) = i
    BY <1>3, VerbsAdd
  <2>2. /\ LastOf(args, T, PathFlags, "") = r.path
        /\ LastOf(args, T, {"--focus-corner"}, "") = r.corner
    <3>1. w \notin PathFlags /\ w \notin {"--focus-corner"}
      BY <1>3 DEF ValueFlags
    <3>2. QED
      BY <1>0, <3>1 DEF Says
  <2>3. [f \in NumberFlags |-> NumberOf(args, T, f)] = r.number
    <3>1. ASSUME NEW f \in NumberFlags PROVE NumberOf(args, T, f) = NumberOf(args, S, f)
      <4>1. w \notin {f}
        BY <1>3 DEF ValueFlags
      <4>2. LastOf(args, T, {f}, "") = LastOf(args, S, {f}, "")
        BY <1>0, <4>1
      <4>3. Given(args, T, {f}) = {} <=> Given(args, S, {f}) = {}
        BY <1>0, <4>1
      <4>4. QED
        BY <4>2, <4>3 DEF NumberOf
    <3>2. QED
      BY <3>1 DEF Says
  <2>4. (\E j \in T : Starts(args, j)) <=> r.autostart \/ Starts(args, i)
    BY DEF Says
  <2>5. args[i][2] = None /\ w \in DOMAIN VerbAction \cup {"pomodoro", "--pomodoro"}
    BY <1>3 DEF Good, Is
  <2>6. CASE w = "pomodoro" /\ Takes(args, i)
    <3>1. q = [r EXCEPT !.action = "ForwardToDaemon",
                        !.request = "pomodoro:" \o Text(args[i + 1])]
      BY <1>3, <2>6 DEF OneMore
    <3>2. /\ ActionAt(args, i) = "ForwardToDaemon" /\ ~Starts(args, i)
          /\ RequestAt(args, i) = "pomodoro:" \o Text(args[i + 1])
      BY <2>6 DEF ActionAt, RequestAt, Starts, VerbAction, VerbRequest
    <3>3. /\ q = [action |-> "ForwardToDaemon", request |-> RequestAt(args, i),
                  path |-> r.path, autostart |-> r.autostart, number |-> r.number,
                  corner |-> r.corner]
      BY <1>1, <3>1, <3>2
    <3> HIDE DEF q, T
    <3>4. QED
      BY <2>1, <2>2, <2>3, <2>4, <3>2, <3>3 DEF Says
  <2>7. CASE w \in {"pomodoro", "--pomodoro"} /\ ~Takes(args, i)
    <3>1. q = [r EXCEPT !.action = "RunDaemon", !.autostart = TRUE]
      BY <1>3, <2>7 DEF OneMore, Autostart
    <3>2. ActionAt(args, i) = "RunDaemon" /\ Starts(args, i)
      BY <2>5, <2>7 DEF ActionAt, Starts, Is, VerbAction
    <3>3. q = [action |-> "RunDaemon", request |-> r.request, path |-> r.path,
               autostart |-> TRUE, number |-> r.number, corner |-> r.corner]
      BY <1>1, <3>1
    <3> HIDE DEF q, T
    <3>4. QED
      BY <2>1, <2>2, <2>3, <2>4, <3>2, <3>3 DEF Says
  <2>8. CASE w \in DOMAIN VerbAction
    <3>1. w \notin {"pomodoro", "--pomodoro"}
      BY <2>8 DEF VerbAction
    <3>2. q = [r EXCEPT !.action = VerbAction[w],
                        !.request = IF w \in DOMAIN VerbRequest THEN VerbRequest[w] ELSE @]
      BY <1>3, <3>1 DEF OneMore, Verb
    <3>3. ActionAt(args, i) = VerbAction[w] /\ ~Starts(args, i)
      BY <2>8, <3>1 DEF ActionAt, Starts, Is
    <3>4. VerbAction[w] = "ForwardToDaemon" =>
             w \in DOMAIN VerbRequest /\ RequestAt(args, i) = VerbRequest[w]
      BY <2>8 DEF VerbAction, VerbRequest, RequestAt
    <3>5. /\ q = [action |-> q.action, request |-> q.request, path |-> q.path,
                  autostart |-> q.autostart, number |-> q.number, corner |-> q.corner]
          /\ q.action = VerbAction[w] /\ q.path = r.path /\ q.autostart = r.autostart
          /\ q.number = r.number /\ q.corner = r.corner
          /\ w \in DOMAIN VerbRequest => q.request = VerbRequest[w]
      BY <1>1, <3>2
    <3> HIDE DEF q, T, w
    <3>6. QED
      BY <2>1, <2>2, <2>3, <2>4, <3>3, <3>4, <3>5 DEF Says
  <2>9. QED
    <3>1. Takes(args, i) => w = "pomodoro"
      <4>1. Word("pomodoro")[1] = "pomodoro"
        BY DEF Word
      <4>2. ~Is(args[i], ValueFlags)
        BY <1>3 DEF Is
      <4>3. QED
        BY <4>1, <4>2 DEF Takes
    <3>2. QED
      BY <2>5, <2>6, <2>7, <2>8, <3>1
<1>4. QED
  BY <1>2, <1>3

----------------------------------------------------------------------------
(* The turns of parse_cli.                                                 *)

\* rest is what is left to read at position i.
LeftAt(args, i, rest) ==
    /\ i \in 1..(Len(args) + 1)
    /\ rest \in Seq(Argument) /\ Len(rest) = Len(args) + 1 - i
    /\ \A j \in 1..Len(rest) : rest[j] = args[i - 1 + j]

LEMMA NextLeft ==
    ASSUME NEW args \in Seq(Argument), NEW i, NEW rest, LeftAt(args, i, rest),
           i <= Len(args)
    PROVE  /\ rest # <<>> /\ Head(rest) = args[i] /\ args[i] \in Argument
           /\ LeftAt(args, i + 1, Tail(rest))
           /\ Tail(rest) = <<>> <=> i = Len(args)
<1> DEFINE next == Tail(rest)
<1>1. Len(args) \in Nat /\ i \in Nat /\ i > 0 /\ Len(rest) > 0 /\ rest \in Seq(Argument)
  BY LenProperties DEF LeftAt
<1>2. rest # <<>> /\ Head(rest) = rest[1]
  BY <1>1
<1>3. rest[1] = args[i] /\ args[i] \in Argument
  <2>1. 1 \in 1..Len(rest) /\ i - 1 + 1 = i /\ i \in 1..Len(args)
    BY <1>1
  <2>2. QED
    BY <2>1, ElementOfSeq DEF LeftAt
<1>4. /\ next \in Seq(Argument) /\ Len(next) = Len(rest) - 1
      /\ \A j \in 1..Len(next) : next[j] = rest[j + 1]
  BY <1>1, <1>2, HeadTailProperties
<1> HIDE DEF next
<1>5. ASSUME NEW j \in 1..Len(next) PROVE next[j] = args[(i + 1) - 1 + j]
  <2>1. j + 1 \in 1..Len(rest) /\ i - 1 + (j + 1) = (i + 1) - 1 + j
    BY <1>1, <1>4
  <2>2. QED
    BY <1>4, <2>1 DEF LeftAt
<1>6. LeftAt(args, i + 1, next)
  BY <1>1, <1>4, <1>5 DEF LeftAt
<1>7. next = <<>> <=> Len(next) = 0
  BY <1>4, EmptySeq
<1>8. QED
  BY <1>1, <1>2, <1>3, <1>4, <1>6, <1>7 DEF LeftAt, next

LEMMA WordIs ==
    ASSUME NEW a \in Argument, NEW w
    PROVE  a = Word(w) <=> a[1] = w /\ a[2] = None
BY DEF Argument, Word

Stops == {"PrintHelp", "PrintVersion", "Error"}

(* One turn: it stops the reading, or goes on to the next argument that    *)
(* is read with what this one says.                                        *)
LEMMA TurnIs ==
    ASSUME NEW args \in Seq(Argument), NEW i, NEW s, LeftAt(args, i, s.args),
           i <= Len(args)
    PROVE  /\ ~Good(args, i) => \E x \in Stops :
                /\ Turn(s) = [args |-> <<>>, result |-> [s.result EXCEPT !.action = x]]
                /\ x # "Error" <=> Is(args[i], {"-h", "--help", "--version"})
           /\ Good(args, i) =>
                /\ Turn(s).result = OneMore(args, i, s.result)
                /\ Turn(s).args = IF Takes(args, i) THEN Tail(Tail(s.args)) ELSE Tail(s.args)
                /\ Takes(args, i) => i < Len(args)
<1> DEFINE a == args[i]
           r == s.result
           next == Tail(s.args)
           Goes(rest, result) == [args |-> rest, result |-> result]
           Halts(action) == Goes(<<>>, [r EXCEPT !.action = action])
<1>0. Len(args) \in Nat /\ i \in Nat
  BY LenProperties DEF LeftAt
<1>1. s.args # <<>> /\ Head(s.args) = a /\ a \in Argument /\ (next = <<>> <=> i = Len(args))
  BY NextLeft
<1>2. i < Len(args) => Head(next) = args[i + 1] /\ args[i + 1] \in Argument
  <2>1. LeftAt(args, i + 1, next)
    BY NextLeft
  <2>2. i < Len(args) => i + 1 <= Len(args)
    BY <1>0
  <2>3. QED
    BY <2>1, <2>2, NextLeft
<1>3. HasSub(next) <=> i < Len(args) /\ args[i + 1] # Word("") /\ args[i + 1][1] \notin Dashed
  <2>1. next # <<>> <=> i < Len(args)
    BY <1>0, <1>1
  <2> HIDE DEF next
  <2>2. QED
    BY <1>2, <2>1 DEF HasSub
<1>4. Turn(s) =
        CASE a \in {Word("-h"), Word("--help")} -> Halts("PrintHelp")
          [] a = Word("--version") -> Halts("PrintVersion")
          [] a[1] \in ValueFlags /\ a[2] # None -> Goes(next, Store(r, a[1], a[2]))
          [] a[1] \in ValueFlags /\ a[2] = None ->
                 IF next = <<>> THEN Halts("Error")
                 ELSE Goes(Tail(next), Store(r, a[1], Text(Head(next))))
          [] a = Word("pomodoro") /\ HasSub(next) ->
                 Goes(Tail(next), [r EXCEPT !.action = "ForwardToDaemon",
                                            !.request = "pomodoro:" \o Text(Head(next))])
          [] a = Word("--pomodoro") \/ (a = Word("pomodoro") /\ ~HasSub(next)) ->
                 Goes(next, Autostart(r))
          [] a[1] \in DOMAIN VerbAction /\ a[2] = None -> Goes(next, Verb(r, a[1]))
          [] OTHER -> Halts("Error")
  BY <1>1 DEF Turn
<1>5. /\ next # <<>> <=> i < Len(args)
      /\ i < Len(args) => Head(next) = args[i + 1]
  BY <1>0, <1>1, <1>2
<1>6. a = <<a[1], a[2]>> /\ \A w : a = Word(w) <=> a[1] = w /\ a[2] = None
  BY <1>1, WordIs DEF Argument
<1> HIDE DEF next
<1>7. CASE a[1] \in ValueFlags
  <2>1. /\ ~(a \in {Word("-h"), Word("--help"), Word("--version"), Word("pomodoro"),
                    Word("--pomodoro")})
        /\ ~(a[1] \in DOMAIN VerbAction)
    BY <1>6, <1>7 DEF ValueFlags, NumberFlags, PathFlags, VerbAction
  <2>2. CASE a[2] # None
    <3>1. Turn(s) = Goes(next, Store(r, a[1], a[2]))
      BY <1>4, <1>7, <2>1, <2>2
    <3>2. Good(args, i) /\ ~Takes(args, i) /\ OneMore(args, i, r) = Store(r, a[1], a[2])
      BY <1>6, <1>7, <2>1, <2>2 DEF Good, Takes, Is, OneMore, ValueAt
    <3>3. QED
      BY <3>1, <3>2 DEF next
  <2>3. CASE a[2] = None /\ i < Len(args)
    <3>1. Turn(s) = Goes(Tail(next), Store(r, a[1], Text(args[i + 1])))
      BY <1>4, <1>5, <1>7, <2>1, <2>3
    <3>2. /\ Good(args, i) /\ Takes(args, i)
          /\ OneMore(args, i, r) = Store(r, a[1], Text(args[i + 1]))
      BY <1>7, <2>3 DEF Good, Takes, Is, OneMore, ValueAt
    <3>3. QED
      BY <2>3, <3>1, <3>2 DEF next
  <2>4. CASE a[2] = None /\ ~(i < Len(args))
    <3>1. Turn(s) = Halts("Error")
      BY <1>4, <1>5, <1>7, <2>1, <2>4
    <3>2. /\ ~Good(args, i) /\ ~Is(a, {"-h", "--help", "--version"})
      BY <1>6, <1>7, <2>1, <2>4 DEF Good, Is
    <3>3. QED
      BY <3>1, <3>2 DEF Stops
  <2>5. QED
    BY <2>2, <2>3, <2>4
<1>8. CASE a[1] \notin ValueFlags /\ a[2] # None
  <2>1. ~\E w : a = Word(w)
    BY <1>6, <1>8
  <2>2. Turn(s) = Halts("Error")
    BY <1>4, <1>8, <2>1
  <2>3. ~Good(args, i) /\ ~Is(a, {"-h", "--help", "--version"})
    BY <1>8 DEF Good, Is
  <2>4. QED
    BY <2>2, <2>3 DEF Stops
<1>9. CASE a[1] \notin ValueFlags /\ a[2] = None
  <2>1. \A w : a = Word(w) <=> a[1] = w
    BY <1>6, <1>9
  <2>2. CASE a[1] \in {"-h", "--help", "--version"}
    <3>1. ~Good(args, i) /\ Is(a, {"-h", "--help", "--version"})
      BY <1>9, <2>2 DEF Good, Is, VerbAction
    <3>2. /\ a \in {Word("-h"), Word("--help")} \/ a = Word("--version")
          /\ a \notin {Word("pomodoro"), Word("--pomodoro")} /\ a[1] \notin DOMAIN VerbAction
      BY <2>1, <2>2 DEF VerbAction
    <3>3. Turn(s) = Halts("PrintHelp") \/ Turn(s) = Halts("PrintVersion")
      BY <1>4, <1>9, <3>2
    <3>4. QED
      BY <3>1, <3>3 DEF Stops
  <2>3. CASE a[1] = "pomodoro" /\ HasSub(next)
    <3>1. /\ Takes(args, i) /\ Good(args, i) /\ i < Len(args)
          /\ OneMore(args, i, r) = [r EXCEPT !.action = "ForwardToDaemon",
                                       !.request = "pomodoro:" \o Text(args[i + 1])]
      BY <1>3, <1>9, <2>1, <2>3 DEF Takes, Good, Is, OneMore
    <3>2. Turn(s) = Goes(Tail(next), OneMore(args, i, r))
      <4>1. /\ a = Word("pomodoro") /\ a # Word("--pomodoro")
            /\ ~(a \in {Word("-h"), Word("--help")}) /\ a # Word("--version")
            /\ a[1] \notin DOMAIN VerbAction
        BY <2>1, <2>3 DEF VerbAction
      <4>2. QED
        BY <1>4, <1>5, <1>9, <2>3, <3>1, <4>1
    <3>3. QED
      BY <3>1, <3>2 DEF next
  <2>4. CASE a[1] = "--pomodoro" \/ (a[1] = "pomodoro" /\ ~HasSub(next))
    <3>1. /\ ~Takes(args, i) /\ Good(args, i) /\ OneMore(args, i, r) = Autostart(r)
      BY <1>3, <1>9, <2>1, <2>4 DEF Takes, Good, Is, OneMore
    <3>2. Turn(s) = Goes(next, Autostart(r))
      <4>1. /\ a = Word("--pomodoro") \/ (a = Word("pomodoro") /\ ~HasSub(next))
            /\ ~(a = Word("pomodoro") /\ HasSub(next))
            /\ ~(a \in {Word("-h"), Word("--help")}) /\ a # Word("--version")
            /\ a[1] \notin DOMAIN VerbAction
        BY <2>1, <2>4 DEF VerbAction
      <4>2. QED
        BY <1>4, <1>9, <4>1
    <3>3. QED
      BY <3>1, <3>2 DEF next
  <2>5. CASE a[1] \in DOMAIN VerbAction
    <3>1. a[1] \notin {"pomodoro", "--pomodoro", "-h", "--help", "--version"}
      BY <2>5 DEF VerbAction
    <3>2. /\ ~Takes(args, i) /\ Good(args, i) /\ OneMore(args, i, r) = Verb(r, a[1])
      BY <1>9, <2>1, <2>5, <3>1 DEF Takes, Good, Is, OneMore
    <3>3. Turn(s) = Goes(next, Verb(r, a[1]))
      BY <1>4, <1>9, <2>1, <2>5, <3>1
    <3>4. QED
      BY <3>2, <3>3 DEF next
  <2>6. CASE a[1] \notin DOMAIN VerbAction \cup
                      {"pomodoro", "--pomodoro", "-h", "--help", "--version"}
    <3>1. ~Good(args, i) /\ ~Is(a, {"-h", "--help", "--version"})
      BY <1>9, <2>6 DEF Good, Is
    <3>2. Turn(s) = Halts("Error")
      BY <1>4, <1>9, <2>1, <2>6
    <3>3. QED
      BY <3>1, <3>2 DEF Stops
  <2>7. QED
    BY <2>2, <2>3, <2>4, <2>5, <2>6
<1>10. QED
  BY <1>7, <1>8, <1>9

Before(read, i) == {j \in read : j < i}

\* All is good so far, and i is the next argument to be read.
Running(args, read, i, s) ==
    /\ LeftAt(args, i, s.args)
    /\ i <= Len(args) => i \in read
    /\ \A j \in read : j < i => Good(args, j) /\ (Takes(args, j) => j + 1 < i)
    /\ Says(args, Before(read, i), s.result)

\* The first argument that is not good has stopped the reading.
Stopped(args, read, s) ==
    /\ s.args = <<>> /\ s.result.action \in Stops
    /\ \E i \in read :
          /\ ~Good(args, i) /\ \A j \in read : j < i => Good(args, j)
          /\ s.result.action # "Error" <=> Is(args[i], {"-h", "--help", "--version"})

LEMMA TurnMoves ==
    ASSUME NEW args \in Seq(Argument), NEW read \in SUBSET (1..Len(args)),
           IsRead(args, read), NEW i, NEW s, Running(args, read, i, s), i <= Len(args)
    PROVE  \/ Stopped(args, read, Turn(s))
           \/ \E k \in {i + 1, i + 2} : Running(args, read, k, Turn(s))
<1>0. /\ Len(args) \in Nat /\ DOMAIN args = 1..Len(args) /\ i \in 1..Len(args) /\ i \in read
      /\ LeftAt(args, i, s.args) /\ Says(args, Before(read, i), s.result)
  BY LenProperties DEF Running, LeftAt
<1>1. CASE ~Good(args, i)
  <2>1. PICK x \in Stops :
           /\ Turn(s) = [args |-> <<>>, result |-> [s.result EXCEPT !.action = x]]
           /\ x # "Error" <=> Is(args[i], {"-h", "--help", "--version"})
    BY <1>0, <1>1, TurnIs
  <2>2. Turn(s).args = <<>> /\ Turn(s).result.action = x
    <3>1. s.result = [action |-> s.result.action, request |-> s.result.request,
                      path |-> s.result.path, autostart |-> s.result.autostart,
                      number |-> s.result.number, corner |-> s.result.corner]
      BY <1>0 DEF Says
    <3>2. QED
      BY <2>1, <3>1
  <2>3. QED
    BY <1>0, <1>1, <2>1, <2>2 DEF Stopped, Running
<1>2. CASE Good(args, i)
  <2> DEFINE k == IF Takes(args, i) THEN i + 2 ELSE i + 1
  <2>1. /\ Turn(s).result = OneMore(args, i, s.result)
        /\ Turn(s).args = IF Takes(args, i) THEN Tail(Tail(s.args)) ELSE Tail(s.args)
        /\ Takes(args, i) => i < Len(args)
    BY <1>0, <1>2, TurnIs
  <2>2. LeftAt(args, k, Turn(s).args)
    <3>1. LeftAt(args, i + 1, Tail(s.args))
      BY <1>0, NextLeft
    <3>2. CASE ~Takes(args, i)
      BY <2>1, <3>1, <3>2
    <3>3. CASE Takes(args, i)
      <4>1. i + 1 <= Len(args) /\ (i + 1) + 1 = i + 2
        BY <1>0, <2>1, <3>3
      <4>2. LeftAt(args, (i + 1) + 1, Tail(Tail(s.args)))
        BY <3>1, <4>1, NextLeft
      <4>3. QED
        BY <2>1, <3>3, <4>1, <4>2
    <3>4. QED
      BY <3>2, <3>3
  <2>3. \A j \in 1..Len(args) : j \in read <=> Due(args, read, j)
    BY <1>0 DEF IsRead, Due
  <2>4. k <= Len(args) => k \in read
    <3>1. SUFFICES ASSUME k <= Len(args) PROVE k \in read
      OBVIOUS
    <3>2. k \in 1..Len(args) /\ (k = i + 1 => k - 1 = i) /\ (k = i + 2 => k - 2 = i)
      BY <1>0, <3>1
    <3>3. Due(args, read, k)
      BY <1>0, <3>2 DEF Due
    <3>4. QED
      BY <2>3, <3>2, <3>3
  <2>5. Takes(args, i) => i + 1 \notin read
    <3>1. SUFFICES ASSUME Takes(args, i), i + 1 \in read PROVE FALSE
      OBVIOUS
    <3>2. (i + 1) - 1 = i /\ (i + 1) - 2 = i - 1 /\ i + 1 # 1 /\ i + 1 \in 1..Len(args)
      BY <1>0, <3>1
    <3>3. i - 1 \in read /\ Takes(args, i - 1)
      BY <2>3, <3>1, <3>2 DEF Due
    <3>4. i - 1 < i /\ ~((i - 1) + 1 < i)
      BY <1>0
    <3>5. QED
      BY <3>3, <3>4 DEF Running
  <2>6. Before(read, k) = Before(read, i) \cup {i}
    <3>1. \A j \in read : j \in Int
      BY <1>0
    <3>2. \A j \in read : j < k <=> j < i \/ j = i
      BY <1>0, <2>5, <3>1
    <3>3. QED
      BY <1>0, <3>2 DEF Before
  <2>7. \A j \in read : j < k => Good(args, j) /\ (Takes(args, j) => j + 1 < k)
    <3>1. SUFFICES ASSUME NEW j \in read, j < k
                   PROVE  Good(args, j) /\ (Takes(args, j) => j + 1 < k)
      OBVIOUS
    <3>2. CASE j = i
      BY <1>0, <1>2, <3>2
    <3>3. CASE j < i
      BY <1>0, <3>3 DEF Running
    <3>4. CASE j = i + 1 /\ Takes(args, i)
      BY <2>5, <3>4
    <3>5. QED
      BY <1>0, <3>1, <3>2, <3>3, <3>4
  <2>8. Says(args, Before(read, k), Turn(s).result)
    <3>1. Before(read, i) \in SUBSET (1..(i - 1))
      <4>1. \A j \in read : j \in 1..Len(args)
        OBVIOUS
      <4>2. \A j \in Before(read, i) : j \in 1..(i - 1)
        BY <1>0, <4>1 DEF Before
      <4>3. QED
        BY <4>2
    <3>2. QED
      BY <1>0, <1>2, <2>1, <2>6, <3>1, SaysMore
  <2>9. Running(args, read, k, Turn(s)) /\ k \in {i + 1, i + 2}
    BY <2>2, <2>4, <2>7, <2>8 DEF Running
  <2> HIDE DEF k
  <2>10. QED
    BY <2>9
<1>3. QED
  BY <1>1, <1>2

LEMMA TurnRests ==
    ASSUME NEW s, s.args = <<>>
    PROVE  Turn(s) = s
BY DEF Turn

(* After as many turns as there are arguments all of them have been read,  *)
(* or one of them has stopped the reading.                                 *)
LEMMA EnoughTurns ==
    ASSUME NEW args \in Seq(Argument), NEW read \in SUBSET (1..Len(args)),
           IsRead(args, read)
    PROVE  \/ Stopped(args, read, Turns(args)[Len(args)])
           \/ Running(args, read, Len(args) + 1, Turns(args)[Len(args)])
<1> DEFINE T == Turns(args)
           Reads(n) == \/ Stopped(args, read, T[n])
                       \/ \E i \in 1..(Len(args) + 1) :
                             Running(args, read, i, T[n]) /\ (i > n \/ i = Len(args) + 1)
           A == {n \in Nat : n <= Len(args) => Reads(n)}
<1>0. Len(args) \in Nat /\ DOMAIN args = 1..Len(args)
  BY LenProperties
<1>1. 0 \in A
  <2>1. T[0].args = args /\ T[0].result = NewCliResult
    <3>1. T[0] = [args |-> args, result |-> NewCliResult]
      BY TurnsDef
    <3> HIDE DEF T
    <3>2. QED
      BY <3>1
  <2>2. LeftAt(args, 1, args)
    BY <1>0 DEF LeftAt
  <2>3. 1 <= Len(args) => 1 \in read
    BY <1>0 DEF IsRead
  <2>4. Before(read, 1) = {} /\ \A j \in read : ~(j < 1)
    <3>1. \A j \in read : j \in 1..Len(args)
      OBVIOUS
    <3>2. \A j \in read : ~(j < 1)
      BY <1>0, <3>1
    <3>3. QED
      BY <3>2 DEF Before
  <2>5. Says(args, Before(read, 1), T[0].result)
    BY <2>1, <2>4, NothingSaid
  <2>6. Running(args, read, 1, T[0])
    BY <2>1, <2>2, <2>3, <2>4, <2>5 DEF Running
  <2>7. Reads(0)
    BY <1>0, <2>6
  <2>8. QED
    BY <2>7
<1>2. ASSUME NEW n \in A PROVE n + 1 \in A
  <2> SUFFICES ASSUME n + 1 <= Len(args) PROVE Reads(n + 1)
    OBVIOUS
  <2>1. n \in Nat /\ Reads(n)
    BY <1>0
  <2>2. T[n + 1] = Turn(T[n])
    <3>1. n + 1 \in 1..Len(args) /\ (n + 1) - 1 = n
      BY <1>0, <2>1
    <3>2. T[n + 1] = Turn(T[(n + 1) - 1])
      BY <3>1, TurnsDef
    <3>3. QED
      BY <3>1, <3>2
  <2>3. CASE Stopped(args, read, T[n])
    <3>1. T[n + 1] = T[n]
      BY <2>2, <2>3, TurnRests DEF Stopped
    <3>2. QED
      BY <2>3, <3>1
  <2>4. ASSUME NEW i \in 1..(Len(args) + 1), Running(args, read, i, T[n]),
               i > n \/ i = Len(args) + 1
        PROVE  Reads(n + 1)
    <3>1. CASE i = Len(args) + 1
      <4>1. T[n].args = <<>>
        <5>1. T[n].args \in Seq(Argument) /\ Len(T[n].args) = Len(args) + 1 - i
          BY <2>4 DEF Running, LeftAt
        <5>2. Len(T[n].args) = 0
          BY <1>0, <3>1, <5>1
        <5>3. QED
          BY <5>1, <5>2, EmptySeq
      <4>2. T[n + 1] = T[n]
        BY <2>2, <4>1, TurnRests
      <4>3. QED
        BY <2>4, <3>1, <4>2
    <3>2. CASE i <= Len(args)
      <4>1. CASE Stopped(args, read, Turn(T[n]))
        BY <2>2, <4>1
      <4>2. ASSUME NEW k \in {i + 1, i + 2}, Running(args, read, k, Turn(T[n]))
            PROVE  Reads(n + 1)
        <5>1. k \in 1..(Len(args) + 1)
          BY <4>2 DEF Running, LeftAt
        <5>2. k > n + 1
          BY <1>0, <2>1, <2>4, <3>2
        <5>3. QED
          BY <2>2, <4>2, <5>1, <5>2
      <4>3. QED
        <5>1. \/ Stopped(args, read, Turn(T[n]))
              \/ \E k \in {i + 1, i + 2} : Running(args, read, k, Turn(T[n]))
          <6> HIDE DEF T
          <6>1. QED
            BY <2>4, <3>2, TurnMoves
        <5> HIDE DEF Reads, T
        <5>2. QED
          BY <4>1, <4>2, <5>1
    <3>3. QED
      BY <1>0, <3>1, <3>2
  <2>5. QED
    BY <2>1, <2>3, <2>4
<1>3. A = Nat
  <2> HIDE DEF A
  <2>1. A \in SUBSET Nat
    BY DEF A
  <2>2. QED
    BY <1>1, <1>2, <2>1, SetInduction
<1>4. Reads(Len(args))
  <2>1. Len(args) \in A
    <3> HIDE DEF A
    <3>1. QED
      BY <1>0, <1>3
  <2> HIDE DEF Reads
  <2>2. QED
    BY <1>0, <2>1
<1>5. QED
  BY <1>0, <1>4

----------------------------------------------------------------------------
(* What main makes of it.                                                  *)

LEMMA MaxExists ==
    ASSUME NEW n \in Nat, NEW S \in SUBSET (1..n), S # {}
    PROVE  Max(S) \in S
<1> DEFINE B == {m \in Nat : \A j \in S : j <= m}
<1>1. \A j \in S : j \in 1..n
  OBVIOUS
<1>2. n \in B
  BY <1>1
<1>3. PICK m \in B : \A y \in B : ~(<<y, m>> \in Less)
  <2>1. B \in SUBSET Nat /\ B # {}
    BY <1>2
  <2> HIDE DEF B
  <2>2. QED
    BY <2>1, LessIsWellFounded, WFMin
<1>4. m \in S
  <2>1. SUFFICES ASSUME m \notin S PROVE FALSE
    OBVIOUS
  <2>2. PICK j \in S : TRUE
    OBVIOUS
  <2>3. m - 1 \in Nat /\ \A l \in S : l <= m - 1
    BY <1>1, <2>1, <2>2
  <2>4. m - 1 \in B /\ <<m - 1, m>> \in Less
    BY <2>3 DEF Less
  <2>5. QED
    BY <1>3, <2>4
<1>5. \A j \in S : j \in Int /\ j <= m
  BY <1>1
<1>6. QED
  BY <1>4, <1>5, MaxIs

\* Files of lines.
Texts(files) == \A p \in DOMAIN files : files[p] \in Seq(Argument)

LEMMA ConfigIsMeant ==
    ASSUME NEW args, NEW read, NEW cli, Says(args, read, cli), NEW files, Texts(files)
    PROVE  Override(ConfigLoad(FileAt(files, cli.path)), cli) = MeantConfig(args, read, files)
<1> DEFINE lines == FileAt(files, LastOf(args, read, PathFlags, ""))
           corner == LastOf(args, read, {"--focus-corner"}, "")
           cfg == ConfigLoad(lines)
<1>1. lines = FileAt(files, cli.path) /\ corner = cli.corner
  BY DEF Says
<1>2. lines \in Seq(Argument)
  <2>1. ASSUME NEW q PROVE FileAt(files, q) \in Seq(Argument)
    <3>1. <<>> \in Seq(Argument)
      OBVIOUS
    <3>2. QED
      BY <3>1 DEF FileAt, Texts
  <2>2. QED
    BY <2>1
<1>3. cfg = [k \in DOMAIN Defaults |-> InFile(lines, k)]
  <2> HIDE DEF lines
  <2>1. QED
    BY <1>2, LastLineDecides
<1>4. ASSUME NEW f \in NumberFlags
      PROVE  cli.number[f] = IF Given(args, read, {f}) = {} THEN -1
                             ELSE Atoi(LastOf(args, read, {f}, ""))
  BY DEF Says, NumberOf
<1>5. \A k \in DOMAIN NumberFlag : NumberFlag[k] \in NumberFlags
  BY DEF NumberFlag, NumberFlags
<1> DEFINE one(k) ==
             IF k \in DOMAIN NumberFlag /\ cli.number[NumberFlag[k]] > 0
             THEN cli.number[NumberFlag[k]]
             ELSE IF k = "pomodoro_focus_corner" /\ cli.corner # "" THEN cli.corner
             ELSE cfg[k]
           other(k) ==
             IF /\ k \in DOMAIN NumberFlag /\ Given(args, read, {NumberFlag[k]}) # {}
                /\ Atoi(LastOf(args, read, {NumberFlag[k]}, "")) > 0
             THEN Atoi(LastOf(args, read, {NumberFlag[k]}, ""))
             ELSE IF k = "pomodoro_focus_corner" /\ corner # "" THEN corner
             ELSE InFile(lines, k)
<1>6. ASSUME NEW k \in DOMAIN Defaults PROVE one(k) = other(k)
  <2>1. cfg[k] = InFile(lines, k)
    BY <1>3
  <2> HIDE DEF lines, corner, cfg
  <2>2. CASE k \in DOMAIN NumberFlag
    <3> DEFINE f == NumberFlag[k]
    <3>1. f \in NumberFlags
      BY <1>5, <2>2
    <3> HIDE DEF f
    <3>2. CASE Given(args, read, {f}) = {}
      <4>1. ~(cli.number[f] > 0)
        <5>1. cli.number[f] = -1
          BY <1>4, <3>1, <3>2
        <5>2. ~(-1 > 0)
          OBVIOUS
        <5>3. QED
          BY <5>1, <5>2
      <4>2. one(k) = IF k = "pomodoro_focus_corner" /\ cli.corner # "" THEN cli.corner
                     ELSE cfg[k]
        BY <4>1 DEF f
      <4>3. other(k) = IF k = "pomodoro_focus_corner" /\ corner # "" THEN corner
                       ELSE InFile(lines, k)
        BY <3>2 DEF f
      <4>4. QED
        BY <1>1, <2>1, <4>2, <4>3
    <3>3. CASE Given(args, read, {f}) # {}
      <4>1. cli.number[f] = Atoi(LastOf(args, read, {f}, ""))
        BY <1>4, <3>1, <3>3
      <4>2. QED
        BY <1>1, <2>1, <2>2, <3>3, <4>1 DEF f
    <3>4. QED
      BY <3>2, <3>3
  <2>3. CASE k \notin DOMAIN NumberFlag
    BY <1>1, <2>1, <2>3
  <2>4. QED
    BY <2>2, <2>3
<1>7. Override(cfg, cli) = [k \in DOMAIN Defaults |-> one(k)]
  <2>1. DOMAIN cfg = DOMAIN Defaults
    BY <1>3
  <2> HIDE DEF cfg
  <2>2. QED
    BY <2>1 DEF Override
<1>8. MeantConfig(args, read, files) = [k \in DOMAIN Defaults |-> other(k)]
  BY DEF MeantConfig
<1> HIDE DEF one, other, lines, cfg
<1>9. QED
  BY <1>1, <1>6, <1>7, <1>8 DEF cfg

LEMMA StoppedIsMeant ==
    ASSUME NEW args \in Seq(Argument), NEW files,
           Stopped(args, Read(args), Turns(args)[Len(args)])
    PROVE  Main(args, files) = Meant(args, files)
<1> DEFINE read == Read(args)
           cli == ParseCli(args)
           ends == {j \in read : ~Good(args, j)}
<1>1. read \in SUBSET (1..Len(args)) /\ Len(args) \in Nat
  BY ReadExists, LenProperties
<1>2. PICK i \in read :
         /\ ~Good(args, i) /\ \A j \in read : j < i => Good(args, j)
         /\ cli.action # "Error" <=> Is(args[i], {"-h", "--help", "--version"})
  BY DEF Stopped, ParseCli
<1>3. cli.action \in Stops
  BY DEF Stopped, ParseCli
<1> HIDE DEF read
<1>4. i \in ends /\ \A j \in ends : j \in Int /\ i <= j
  <2>1. \A j \in read : j \in Int
    BY <1>1
  <2>2. QED
    BY <1>2, <2>1
<1> HIDE DEF ends
<1>5. Min(ends) = i /\ ends # {}
  BY <1>4, MinIs
<1>6. Meant(args, files) =
        Exits(IF Is(args[Min(ends)], {"-h", "--help", "--version"}) THEN 0 ELSE 2)
  BY <1>5 DEF Meant, ends, read
<1>7. Main(args, files) = Exits(IF cli.action = "Error" THEN 2 ELSE 0)
  <2> HIDE DEF cli
  <2>1. QED
    BY <1>3 DEF Main, Stops, cli
<1>8. QED
  BY <1>2, <1>5, <1>6, <1>7

\* What main does with the action and the request of a command line.
Does(action, request, corner, config, starts) ==
    IF action = "ForwardToDaemon" THEN Asks(FALSE, request)
    ELSE IF action = "PrintWaybarStatus" THEN Asks(TRUE, "waybar-status")
    ELSE IF corner \notin Corners \cup {""} THEN Exits(2)
    ELSE Serves(config, starts \/ (config.enable_pomodoro /\ config.pomodoro_auto_start))

LEMMA ReadThroughIsMeant ==
    ASSUME NEW args \in Seq(Argument), NEW files, Texts(files),
           Running(args, Read(args), Len(args) + 1, Turns(args)[Len(args)])
    PROVE  Main(args, files) = Meant(args, files)
<1> DEFINE read == Read(args)
           cli == ParseCli(args)
           verbs == Verbs(args, read)
           v == Max(verbs)
           last == IF verbs = {} THEN "run" ELSE args[v][1]
           config == MeantConfig(args, read, files)
           starts == \E j \in verbs : Starts(args, j)
<1>1. /\ read \in SUBSET (1..Len(args)) /\ Len(args) \in Nat
      /\ \A j \in read : j \in 1..Len(args) /\ j < Len(args) + 1
  BY ReadExists, LenProperties
<1>2. Before(read, Len(args) + 1) = read /\ \A j \in read : Good(args, j)
  BY <1>1 DEF Before, Running
<1>3. Says(args, read, cli)
  BY <1>2 DEF Running, ParseCli
<1> HIDE DEF read, cli
<1>4. Override(ConfigLoad(FileAt(files, cli.path)), cli) = config
  BY <1>3, ConfigIsMeant
<1>5. cli.autostart \in BOOLEAN /\ (cli.autostart <=> starts)
  <2>1. ASSUME NEW j \in read, Starts(args, j) PROVE j \in verbs
    BY <2>1 DEF Starts, Is, Verbs, ValueFlags, NumberFlags, PathFlags
  <2>2. QED
    BY <1>3, <2>1 DEF Says, Verbs
<1>6. verbs # {} => v \in verbs
  <2>1. verbs \in SUBSET (1..Len(args))
    BY <1>1 DEF Verbs
  <2> HIDE DEF verbs
  <2>2. QED
    BY <1>1, <2>1, MaxExists
<1>7. ASSUME verbs # {}
      PROVE  /\ last \in DOMAIN VerbAction \cup {"pomodoro", "--pomodoro"}
             /\ Takes(args, v) => last = "pomodoro"
  <2>1. last = args[v][1] /\ Good(args, v) /\ last \notin ValueFlags
    BY <1>2, <1>6, <1>7 DEF Verbs
  <2>2. Word("pomodoro")[1] = "pomodoro"
    BY DEF Word
  <2>3. Takes(args, v) => last = "pomodoro"
    BY <2>1, <2>2 DEF Takes, Is
  <2>4. QED
    BY <2>1, <2>3 DEF Good, Is
<1> HIDE DEF verbs, v, config, starts
<1>8. /\ cli.action \in {"RunDaemon", "ForwardToDaemon", "PrintWaybarStatus"}
      /\ cli.action = IF last \in DOMAIN VerbAction THEN VerbAction[last]
                      ELSE IF last = "pomodoro" /\ Takes(args, v) THEN "ForwardToDaemon"
                      ELSE "RunDaemon"
  <2>1. CASE verbs = {}
    BY <1>3, <2>1 DEF Says, verbs, VerbAction
  <2>2. CASE verbs # {}
    BY <1>3, <1>7, <2>2 DEF Says, verbs, v, ActionAt, VerbAction
  <2>3. QED
    BY <2>1, <2>2
<1>9. cli.action = "ForwardToDaemon" =>
         cli.request = IF last \in DOMAIN VerbRequest THEN VerbRequest[last]
                       ELSE "pomodoro:" \o Text(args[v + 1])
  BY <1>3 DEF Says, verbs, v, RequestAt
<1>10. Main(args, files) = Does(cli.action, cli.request, cli.corner, config, starts)
  <2>1. Main(args, files) =
          CASE cli.action \in {"PrintHelp", "PrintVersion"} -> Exits(0)
            [] cli.action = "Error"             -> Exits(2)
            [] cli.action = "ForwardToDaemon"   -> Asks(FALSE, cli.request)
            [] cli.action = "PrintWaybarStatus" -> Asks(TRUE, "waybar-status")
            [] cli.action = "RunDaemon"         ->
                 IF cli.corner \notin Corners \cup {""} THEN Exits(2)
                 ELSE Serves(config, cli.autostart \/ ( /\ config.enable_pomodoro
                                                        /\ config.pomodoro_auto_start ))
    BY <1>4 DEF Main, cli
  <2>2. (cli.autostart \/ ( /\ config.enable_pomodoro /\ config.pomodoro_auto_start ))
          = (starts \/ (config.enable_pomodoro /\ config.pomodoro_auto_start))
    BY <1>5
  <2>3. QED
    BY <1>8, <2>1, <2>2 DEF Does
<1>11. Meant(args, files) =
         IF last \in DOMAIN VerbRequest THEN Asks(FALSE, VerbRequest[last])
         ELSE IF last = "waybar-status" THEN Asks(TRUE, last)
         ELSE IF last = "pomodoro" /\ Takes(args, v)
              THEN Asks(FALSE, "pomodoro:" \o Text(args[v + 1]))
         ELSE IF cli.corner \notin Corners \cup {""} THEN Exits(2)
         ELSE Serves(config, starts \/ (config.enable_pomodoro /\ config.pomodoro_auto_start))
  <2>1. {j \in read : ~Good(args, j)} = {}
    BY <1>2
  <2>2. LastOf(args, read, {"--focus-corner"}, "") = cli.corner
    BY <1>3 DEF Says
  <2>3. QED
    BY <2>1, <2>2 DEF Meant, read, verbs, v, config, starts
<1>12. DOMAIN VerbRequest = {"toggle", "quit", "status"}
  BY DEF VerbRequest
<1>13. CASE last \in DOMAIN VerbRequest
  <2>1. cli.action = "ForwardToDaemon"
    BY <1>8, <1>12, <1>13 DEF VerbAction
  <2>2. QED
    BY <1>9, <1>10, <1>11, <1>13, <2>1 DEF Does
<1>14. CASE last = "waybar-status"
  <2>1. cli.action = "PrintWaybarStatus"
    BY <1>8, <1>14 DEF VerbAction
  <2>2. QED
    BY <1>10, <1>11, <1>12, <1>14, <2>1 DEF Does
<1>15. CASE last = "pomodoro" /\ Takes(args, v)
  <2>1. cli.action = "ForwardToDaemon" /\ last \notin DOMAIN VerbRequest
    BY <1>8, <1>12, <1>15 DEF VerbAction
  <2>2. QED
    BY <1>9, <1>10, <1>11, <1>15, <2>1 DEF Does
<1>16. CASE last = "run" \/ last = "--pomodoro" \/ (last = "pomodoro" /\ ~Takes(args, v))
  <2>1. cli.action = "RunDaemon"
    BY <1>8, <1>16 DEF VerbAction
  <2> HIDE DEF last
  <2> DEFINE runs == IF cli.corner \notin Corners \cup {""} THEN Exits(2)
                     ELSE Serves(config, starts \/ ( /\ config.enable_pomodoro
                                                     /\ config.pomodoro_auto_start ))
  <2>2. Main(args, files) = runs
    BY <1>10, <2>1, Zenon DEF Does
  <2>3. /\ last \notin DOMAIN VerbRequest /\ last # "waybar-status"
        /\ ~(last = "pomodoro" /\ Takes(args, v))
    BY <1>12, <1>16
  <2>4. Meant(args, files) = runs
    BY <1>11, <2>3, Zenon
  <2> HIDE DEF runs
  <2>5. QED
    BY <2>2, <2>4
<1>17. last \in {"run", "toggle", "quit", "status", "waybar-status", "pomodoro", "--pomodoro"}
  <2>1. CASE verbs = {}
    BY <2>1
  <2>2. CASE verbs # {}
    BY <1>7, <2>2 DEF VerbAction
  <2>3. QED
    BY <2>1, <2>2
<1> HIDE DEF last
<1>18. QED
  BY <1>12, <1>13, <1>14, <1>15, <1>16, <1>17

(* parse_cli, Config::load and the overrides of main, one argument and one *)
(* line at a time, make of every command line, however long, and of every  *)
(* file what Meant says of the whole of them: which verb counts, what an   *)
(* option or pomodoro takes, what stops the reading, which number wins.    *)
THEOREM MainIsMeant ==
    ASSUME NEW args \in Seq(Argument), NEW files, Texts(files)
    PROVE  Main(args, files) = Meant(args, files)
<1>1. Read(args) \in SUBSET (1..Len(args)) /\ IsRead(args, Read(args))
  BY ReadExists
<1>2. QED
  BY <1>1, EnoughTurns, StoppedIsMeant, ReadThroughIsMeant

----------------------------------------------------------------------------
(* What a command has seen, and what its daemon has come to.               *)

\* What main makes of what is typed, whatever that is.
Bars  == {main.bar : main \in Typed} \cup {FALSE}
Words == {main.request : main \in Typed} \cup {""}
Codes == {0, 1, 2}

LEMMA AtoiIsInt == ASSUME NEW text PROVE Atoi(text) \in Int
<1> DEFINE W == {n \in -1..MaxNumeral : ToString(n) = text}
<1>1. MaxNumeral \in Int
  BY NumeralAssumption
<1>2. \A n \in W : n \in Int
  BY <1>1
<1>3. Atoi(text) = IF W = {} THEN 0 ELSE CHOOSE n \in W : TRUE
  BY DEF Atoi
<1> HIDE DEF W
<1>4. W # {} => (CHOOSE n \in W : TRUE) \in W
  BY Zenon
<1>5. QED
  BY <1>2, <1>3, <1>4

(* An exit code is 0 or 2, and the number of sessions is a number.         *)
LEMMA TypedIsTyped ==
    ASSUME NEW main \in Typed
    PROVE  /\ main.does = "exits" => main.code \in Codes
           /\ main.does = "serves" =>
                main.config.pomodoro_sessions_before_long_break \in Int
<1>1. PICK args \in CommandLines : main = Meant(args, Files)
  <2>1. PICK args \in CommandLines : main = Main(args, Files)
    BY DEF Typed
  <2>2. args \in Seq(Argument) /\ Texts(Files)
    BY TextAssumption DEF Argument, Texts
  <2>3. QED
    BY <2>1, <2>2, MainIsMeant
<1> DEFINE c == MeantConfig(args, Read(args), Files)
<1>2. c.pomodoro_sessions_before_long_break \in Int
  <2> DEFINE k == "pomodoro_sessions_before_long_break"
             lines == FileAt(Files, LastOf(args, Read(args), PathFlags, ""))
  <2>1. k \in DOMAIN Defaults /\ Defaults[k] = 4
    BY DEF Defaults
  <2>2. \A text : Meaning(k, text) = Atoi(text)
    BY DEF Meaning, Known, BoolKeys, TextKeys
  <2>3. InFile(lines, k) \in Int
    <3> DEFINE at == {n \in DOMAIN lines : lines[n][1] = k}
    <3>1. InFile(lines, k) = IF at = {} THEN Defaults[k] ELSE Meaning(k, lines[Max(at)][2])
      BY DEF InFile
    <3> HIDE DEF at, k, lines
    <3>2. \A text : Meaning(k, text) \in Int
      BY <2>2, AtoiIsInt
    <3>3. QED
      BY <2>1, <3>1, <3>2
  <2> HIDE DEF lines
  <2>4. QED
    BY <2>1, <2>3, AtoiIsInt DEF MeantConfig, lines
<1> HIDE DEF c
<1>3. \/ \E code \in {0, 2} : main = Exits(code)
      \/ \E bar, request : main = Asks(bar, request)
      \/ \E starts : main = Serves(c, starts)
  BY <1>1 DEF Meant, c
<1>4. QED
  BY <1>2, <1>3 DEF Exits, Asks, Serves, Codes

ClientRecord ==
    [at : {"new", "asked", "over"}, bar : Bars, request : Words,
     to : Daemons \cup {Socket!Nobody}, code : Codes,
     printed : {"", "reply", "stopped", "error", "nothing"}, heard : BOOLEAN]

Ended(d) == d \in Daemons /\ daemon[d] = "over"

\* Of a command x, in the states it goes through.
Story(x) ==
    /\ x.at = "new" => ~x.heard /\ ~x.bar /\ x.to = Socket!Nobody /\ x.printed = ""
    /\ x.at = "asked" => x.to \in Daemons /\ (x.heard => Ended(x.to))
    /\ x.at = "over" =>
          /\ x.code = 1 => ~x.heard
          /\ x.printed = "reply" => x.heard
          /\ x.bar => x.code = 0
          /\ x.printed = "nothing" => Ended(x.to)
          /\ x.printed = "stopped" => x.to = Socket!Nobody \/ Ended(x.to)

CommandInv ==
    /\ SocketInv
    /\ client \in [Clients -> ClientRecord]
    /\ \A c \in Clients : Story(client[c])

LEMMA CommandInit == Init => CommandInv
<1>1. NewClient \in ClientRecord
  BY DEF NewClient, ClientRecord, Bars, Words, Codes
<1>2. NewClient.at = "new" /\ NewClient.to = Socket!Nobody /\ NewClient.printed = ""
  BY DEF NewClient
<1>3. ~NewClient.heard /\ ~NewClient.bar
  BY DEF NewClient
<1>4. Story(NewClient)
  BY <1>2, <1>3 DEF Story
<1>5. Init => client \in [Clients -> ClientRecord] /\ \A c \in Clients : client[c] = NewClient
  BY <1>1 DEF Init
<1>6. QED
  BY SocketInit, <1>4, <1>5 DEF CommandInv

(* A command that does nothing in a step: what is said of its daemon stays *)
(* true, since a daemon that is over stays so.                             *)
LEMMA StoryGoesOn ==
    ASSUME Socket!TypeOK, SocketStep, NEW c \in Clients, Story(client[c]),
           client'[c] = client[c]
    PROVE  Story(client[c])'
<1>1. Ended(client[c].to) => Ended(client[c].to)'
  BY OverForGood DEF Ended
<1>2. QED
  BY <1>1 DEF Story

(* What an answer makes of a command: with a reply; without one, and an    *)
(* error or none.                                                          *)
LEMMA CodeOfAnswer ==
    ASSUME NEW x
    PROVE  /\ Code(x, "reply", FALSE) = 0 /\ Code(x, "", FALSE) = 0
           /\ Code(x, "", TRUE) \in {0, 1} /\ (x.bar => Code(x, "", TRUE) = 0)
<1>1. Code(x, "reply", FALSE) = 0
  BY Zenon DEF Code, ExitCode
<1>2. Code(x, "", FALSE) = 0
  BY Zenon DEF Code, ExitCode
<1>3. Code(x, "", TRUE) \in {0, 1}
  BY Zenon DEF Code, ExitCode
<1>4. x.bar => Code(x, "", TRUE) = 0
  BY Zenon DEF Code
<1>5. QED
  BY <1>1, <1>2, <1>3, <1>4, Zenon

LEMMA PrintedOfAnswer ==
    ASSUME NEW x
    PROVE  /\ Printed(x, "reply", FALSE) = "reply"
           /\ Printed(x, "", FALSE) \in {"stopped", "nothing"}
           /\ Printed(x, "", TRUE) \in {"stopped", "error"}
BY DEF Printed

(* The steps a command takes, or is taken through.                         *)
LEMMA AskStory ==
    ASSUME CommandInv, NEW c \in Clients, Ask(c)
    PROVE  client'[c] \in ClientRecord /\ Story(client[c])'
<1>1. PICK main \in Typed, fails \in BOOLEAN :
        /\ client[c].at = "new" /\ main.does = "asks" /\ UNCHANGED daemon
        /\ client' = [client EXCEPT ![c] =
             IF ~fails /\ \E d \in Daemons : Socket!Reaches(d)
             THEN [[client[c] EXCEPT !.bar = main.bar, !.request = main.request]
                      EXCEPT !.at = "asked", !.to = path]
             ELSE Answered([client[c] EXCEPT !.bar = main.bar, !.request = main.request],
                           "", TRUE)]
  BY DEF Ask
<1>2. client[c] \in ClientRecord /\ ~client[c].heard /\ client[c].to = Socket!Nobody
  BY <1>1 DEF CommandInv, Story
<1> DEFINE asker == [client[c] EXCEPT !.bar = main.bar, !.request = main.request]
<1>3. asker \in ClientRecord /\ asker.heard = client[c].heard /\ asker.to = client[c].to
  <2>1. main.bar \in Bars /\ main.request \in Words
    BY DEF Bars, Words
  <2>2. QED
    BY <1>2, <2>1 DEF ClientRecord
<1> HIDE DEF asker
<1>4. CASE ~fails /\ \E d \in Daemons : Socket!Reaches(d)
  <2>1. client'[c] = [asker EXCEPT !.at = "asked", !.to = path] /\ path \in Daemons
    BY <1>1, <1>4 DEF CommandInv, Socket!Reaches, asker
  <2>2. /\ client'[c] \in ClientRecord /\ client'[c].at = "asked"
        /\ client'[c].to \in Daemons /\ client'[c].heard = asker.heard
    BY <1>3, <2>1 DEF ClientRecord
  <2>3. QED
    BY <1>2, <1>3, <2>2 DEF Story
<1>5. CASE ~(~fails /\ \E d \in Daemons : Socket!Reaches(d))
  <2>1. client'[c] = [asker EXCEPT !.at = "over", !.code = Code(asker, "", TRUE),
                                   !.printed = Printed(asker, "", TRUE)]
    BY <1>1, <1>5 DEF CommandInv, asker, Answered
  <2>2. /\ Code(asker, "", TRUE) \in Codes /\ (asker.bar => Code(asker, "", TRUE) = 0)
        /\ Printed(asker, "", TRUE) \in {"stopped", "error"}
    BY CodeOfAnswer, PrintedOfAnswer, Zenon DEF Codes
  <2>3. /\ client'[c] \in ClientRecord /\ client'[c].at = "over"
        /\ client'[c].to = asker.to /\ client'[c].heard = asker.heard
        /\ client'[c].bar = asker.bar /\ (asker.bar => client'[c].code = 0)
        /\ client'[c].printed \in {"stopped", "error"}
    BY <1>3, <2>1, <2>2 DEF ClientRecord
  <2>4. QED
    BY <1>2, <1>3, <2>3 DEF Story
<1>6. QED
  BY <1>4, <1>5

LEMMA RejectStory ==
    ASSUME CommandInv, NEW c \in Clients, Reject(c)
    PROVE  client'[c] \in ClientRecord /\ Story(client[c])'
<1>1. PICK main \in Typed :
        /\ client[c].at = "new" /\ main.does = "exits"
        /\ client' = [client EXCEPT ![c].at = "over", ![c].code = main.code]
  BY DEF Reject
<1>2. client[c] \in ClientRecord /\ Story(client[c])
  BY DEF CommandInv
<1>3. client'[c] = [client[c] EXCEPT !.at = "over", !.code = main.code]
  BY <1>1 DEF CommandInv
<1>4. main.code \in Codes
  BY <1>1, TypedIsTyped
<1>5. /\ client'[c] \in ClientRecord /\ client'[c].at = "over"
      /\ client'[c].bar = client[c].bar /\ client'[c].heard = client[c].heard
      /\ client'[c].printed = client[c].printed
  BY <1>2, <1>3, <1>4 DEF ClientRecord
<1>6. QED
  BY <1>1, <1>2, <1>5 DEF Story

LEMMA HungUpStory ==
    ASSUME CommandInv, NEW c \in Clients, HungUp(c)
    PROVE  client'[c] \in ClientRecord /\ Story(client[c])'
<1>1. /\ client[c].at = "asked" /\ daemon[client[c].to] = "over" /\ UNCHANGED daemon
      /\ client'[c] = [client[c] EXCEPT !.at = "over", !.code = Code(client[c], "", FALSE),
                                        !.printed = Printed(client[c], "", FALSE)]
  BY DEF HungUp, CommandInv, Answered
<1>2. client[c] \in ClientRecord /\ client[c].to \in Daemons
  BY <1>1 DEF CommandInv, Story
<1>3. /\ Code(client[c], "", FALSE) = 0 /\ 0 \in Codes
      /\ Printed(client[c], "", FALSE) \in {"stopped", "nothing"}
  BY CodeOfAnswer, PrintedOfAnswer, Zenon DEF Codes
<1>4. /\ client'[c] \in ClientRecord /\ client'[c].at = "over"
      /\ client'[c].to = client[c].to /\ client'[c].code = 0
      /\ client'[c].printed \in {"stopped", "nothing"}
  BY <1>1, <1>2, <1>3 DEF ClientRecord
<1>5. Ended(client[c].to)'
  BY <1>1, <1>2, <1>4 DEF Ended
<1>6. QED
  BY <1>4, <1>5 DEF Story

LEMMA ServeStory ==
    ASSUME CommandInv, NEW d \in Daemons, Serve(d)
    PROVE  \E c \in Clients :
              /\ client'[c] \in ClientRecord /\ Story(client[c])'
              /\ \A e \in Clients \ {c} : client'[e] = client[e]
              /\ client' = [client EXCEPT ![c] = client'[c]]
<1>1. PICK c \in Clients :
        /\ daemon[d] = "up" /\ client[c].at = "asked" /\ client[c].to = d
        /\ Handle(d, client[c].request)
        /\ client' = [client EXCEPT ![c] =
             IF daemon'[d] = "up" THEN Answered([client[c] EXCEPT !.heard = TRUE], "reply", FALSE)
             ELSE [client[c] EXCEPT !.heard = TRUE]]
  BY DEF Serve
<1>2. client[c] \in ClientRecord
  BY DEF CommandInv
<1> DEFINE heard == [client[c] EXCEPT !.heard = TRUE]
<1>3. heard \in ClientRecord /\ heard.heard /\ heard.to = d /\ heard.at = "asked"
  BY <1>1, <1>2 DEF ClientRecord
<1>4. client'[c] = IF daemon'[d] = "up" THEN Answered(heard, "reply", FALSE) ELSE heard
  BY <1>1 DEF CommandInv
<1> HIDE DEF heard
<1>5. client'[c] \in ClientRecord /\ Story(client[c])'
  <2>1. CASE daemon'[d] = "up"
    <3>1. client'[c] = [heard EXCEPT !.at = "over", !.code = Code(heard, "reply", FALSE),
                                     !.printed = Printed(heard, "reply", FALSE)]
      BY <1>4, <2>1 DEF Answered
    <3>2. /\ Code(heard, "reply", FALSE) = 0 /\ 0 \in Codes
          /\ Printed(heard, "reply", FALSE) = "reply"
      BY CodeOfAnswer, PrintedOfAnswer, Zenon DEF Codes
    <3>3. /\ client'[c] \in ClientRecord /\ client'[c].at = "over" /\ client'[c].heard
          /\ client'[c].code = 0 /\ client'[c].printed = "reply"
      BY <1>3, <3>1, <3>2 DEF ClientRecord
    <3>4. QED
      BY <3>3 DEF Story
  <2>2. CASE daemon'[d] # "up"
    <3>1. daemon'[d] = "over"
      BY <1>1, <2>2, HandleEnds DEF socketVars, Socket!Killed, Socket!Goes, CommandInv,
         SocketInv, Socket!TypeOK
    <3>2. client'[c] = heard
      BY <1>4, <2>2
    <3>3. QED
      BY <1>3, <3>1, <3>2 DEF Story, Ended
  <2>3. QED
    BY <2>1, <2>2
<1>6. /\ client' = [client EXCEPT ![c] = client'[c]]
      /\ \A e \in Clients \ {c} : client'[e] = client[e]
  BY <1>1, <1>4 DEF CommandInv, heard
<1>7. QED
  BY <1>5, <1>6

(* Whatever is done, one command goes on at most.                          *)
LEMMA OneCommand ==
    ASSUME CommandInv, [Next]_vars
    PROVE  \/ UNCHANGED client
           \/ \E c \in Clients :
                 /\ client'[c] \in ClientRecord /\ Story(client[c])'
                 /\ \A e \in Clients \ {c} : client'[e] = client[e]
                 /\ client' = [client EXCEPT ![c] = client'[c]]
<1>1. ASSUME NEW d \in Daemons, Launch(d) \/ Binds(d) \/ Tick(d) \/ Ends(d)
      PROVE  UNCHANGED client
  BY <1>1 DEF Launch, Binds, Tick, Ends
<1>2. ASSUME NEW c \in Clients, Ask(c) \/ Reject(c) \/ HungUp(c)
      PROVE  /\ client'[c] \in ClientRecord /\ Story(client[c])'
             /\ \A e \in Clients \ {c} : client'[e] = client[e]
             /\ client' = [client EXCEPT ![c] = client'[c]]
  <2>1. client'[c] \in ClientRecord /\ Story(client[c])'
    BY <1>2, AskStory, RejectStory, HungUpStory
  <2>2. \E x : client' = [client EXCEPT ![c] = x]
    BY <1>2 DEF Ask, Reject, HungUp
  <2>3. QED
    BY <2>1, <2>2 DEF CommandInv
<1>3. CASE UNCHANGED vars
  BY <1>3 DEF vars
<1>4. QED
  BY <1>1, <1>2, <1>3, ServeStory DEF Next

THEOREM CommandInvariant == Spec => []CommandInv
<1>1. ASSUME CommandInv, [Next]_vars PROVE CommandInv'
  <2>1. SocketStep /\ SocketInv' /\ Socket!TypeOK
    BY <1>1, StepOfSocket, SocketAlone DEF CommandInv, SocketInv
  <2>2. ASSUME NEW e \in Clients, client'[e] = client[e] PROVE Story(client[e])'
    BY <1>1, <2>1, <2>2, StoryGoesOn DEF CommandInv
  <2>3. CASE UNCHANGED client
    BY <1>1, <2>1, <2>2, <2>3 DEF CommandInv
  <2>4. ASSUME NEW c \in Clients,
               client'[c] \in ClientRecord, Story(client[c])',
               \A e \in Clients \ {c} : client'[e] = client[e],
               client' = [client EXCEPT ![c] = client'[c]]
        PROVE  CommandInv'
    <3>1. client' \in [Clients -> ClientRecord]
      BY <1>1, <2>4 DEF CommandInv
    <3>2. \A e \in Clients : Story(client[e])'
      BY <2>2, <2>4
    <3>3. QED
      BY <2>1, <3>1, <3>2 DEF CommandInv
  <2>5. QED
    BY <1>1, <2>3, <2>4, OneCommand
<1>2. QED
  BY CommandInit, <1>1, PTL DEF Spec

(* A command can be read from its end: code 1 means that no daemon has     *)
(* heard it, a reply that one has, an empty line that it has ended since.  *)
THEOREM ExitTruthful == Spec => []ExitTellsTheTruth
<1>1. CommandInv => ExitTellsTheTruth
  BY DEF CommandInv, ExitTellsTheTruth, Story, Ended
<1>2. QED
  BY CommandInvariant, <1>1, PTL

----------------------------------------------------------------------------
(* The types, and what main makes of what is typed.                        *)

Timers ==
    /\ sessions \in [Daemons -> Int]
    /\ phase \in [Daemons -> {"Stopped", "Focus", "Break"}]

LEMMA TimersInductive ==
    ASSUME Timers, [Next]_vars
    PROVE  Timers'
<1> USE DEF Timers
<1>1. ASSUME NEW d \in Daemons, Launch(d) PROVE Timers'
  <2>1. PICK main \in Typed :
           /\ main.does = "serves"
           /\ sessions' = [sessions EXCEPT ![d] = main.config.pomodoro_sessions_before_long_break]
           /\ phase' = [phase EXCEPT ![d] = IF main.autostart THEN "Focus" ELSE @]
    BY <1>1 DEF Launch
  <2>2. main.config.pomodoro_sessions_before_long_break \in Int
    BY <2>1, TypedIsTyped
  <2>3. QED
    BY <2>1, <2>2
<1>2. ASSUME NEW d \in Daemons, EndPhase(d), UNCHANGED sessions PROVE Timers'
  BY <1>2 DEF EndPhase
<1>3. ASSUME NEW d \in Daemons, Serve(d) PROVE Timers'
  <2>1. PICK r : Handle(d, r) /\ UNCHANGED sessions
    BY <1>3 DEF Serve
  <2>2. QED
    BY <1>2, <2>1 DEF Handle
<1>4. CASE UNCHANGED <<sessions, phase>>
  BY <1>4
<1>5. QED
  BY <1>1, <1>2, <1>3, <1>4 DEF Next, vars, Binds, Tick, Ends, Ask, Reject, HungUp

(* Whatever is typed, a code is 0, 1 or 2, what is asked is a daemon, and  *)
(* a daemon has a number of sessions to divide by, zero among them.        *)
THEOREM CommandTypes == Spec => []TypeOK
<1>1. Init => Timers
  BY DEF Init, Timers
<1>2. Timers /\ [Next]_vars => Timers'
  BY TimersInductive
<1>3. Spec => []Timers
  BY <1>1, <1>2, PTL DEF Spec
<1>4. CommandInv /\ Timers => TypeOK
  <2>1. SUFFICES ASSUME CommandInv, Timers, NEW c \in Clients
                 PROVE  /\ client[c].at \in {"new", "asked", "over"} /\ client[c].code \in 0..2
                        /\ client[c].to \in Daemons \cup {Socket!Nobody}
                        /\ client[c].printed \in {"", "reply", "stopped", "error", "nothing"}
                        /\ client[c].at = "asked" => client[c].to # Socket!Nobody
    BY DEF CommandInv, SocketInv, Timers, TypeOK
  <2>2. client[c] \in ClientRecord /\ Story(client[c])
    BY <2>1 DEF CommandInv
  <2>3. Socket!Nobody \notin Daemons
    BY NobodyAssumption
  <2>4. /\ client[c].at \in {"new", "asked", "over"} /\ client[c].code \in Codes
        /\ client[c].to \in Daemons \cup {Socket!Nobody}
        /\ client[c].printed \in {"", "reply", "stopped", "error", "nothing"}
    BY <2>2 DEF ClientRecord
  <2>5. client[c].at = "asked" => client[c].to # Socket!Nobody
    BY <2>2, <2>3 DEF Story
  <2>6. client[c].code \in 0..2
    <3>1. \A code \in Codes : code \in 0..2
      BY DEF Codes
    <3>2. QED
      BY <2>4, <3>1, Zenon
  <2>7. QED
    BY <2>4, <2>5, <2>6
<1>5. QED
  BY <1>3, <1>4, CommandInvariant, PTL

LEMMA BoundedIsSeq ==
    ASSUME NEW S, NEW n, NEW s \in BoundedSeq(S, n)
    PROVE  s \in Seq(S)
<1>1. PICK m \in 0..n : s \in [1..m -> S]
  BY DEF BoundedSeq, SeqOf
<1>2. m \in Nat
  BY <1>1
<1>3. QED
  BY <1>1, <1>2

(* Before anything is launched, the lines and files that a run ranges over *)
(* are taken as they are meant: so is every other.                         *)
THEOREM LaunchedAsMeant == Spec => []LaunchesAsMeant
<1>1. LaunchesAsMeant
  <2>1. SUFFICES ASSUME NEW args \in BoundedSeq(Arguments, MaxArguments),
                        NEW lines \in BoundedSeq(Lines, MaxLines)
                 PROVE  LET files == [p \in {"", "named"} |-> IF p = "" THEN lines ELSE <<>>]
                        IN  Main(args, files) = Meant(args, files)
    BY DEF LaunchesAsMeant
  <2> DEFINE files == [p \in {"", "named"} |-> IF p = "" THEN lines ELSE <<>>]
  <2>2. args \in Seq(Argument) /\ lines \in Seq(Argument)
    BY BoundedIsSeq, TextAssumption DEF Argument
  <2>3. Texts(files)
    <3>1. <<>> \in Seq(Argument)
      OBVIOUS
    <3>2. QED
      BY <2>2, <3>1 DEF Texts
  <2> HIDE DEF files
  <2>4. Main(args, files) = Meant(args, files)
    BY <2>2, <2>3, MainIsMeant
  <2>5. QED
    BY <2>4 DEF files
<1>2. QED
  BY <1>1, PTL
============================================================================
