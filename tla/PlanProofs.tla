----------------------------- MODULE PlanProofs -----------------------------
(***************************************************************************)
(* Theorems about PowerPlan, for any names, members and configurations:    *)
(* the depth-first search accepts what has no cycle and orders what it     *)
(* accepts, and begin lists the members of the groups in that order.       *)
(***************************************************************************)
EXTENDS PowerPlan, SequenceTheorems, WellFoundedInduction, TLAPS

-----------------------------------------------------------------------------
(* The invariant.                                                          *)

Group == [name : Name, members : Seq(Member), deps : Seq(Name)]
Frame == [name : Name \cup {""}, left : Seq(Name)]

\* What may be asked for: "" stands for every group.
Askable == Roots \cup {""}

\* What the search started from, and what the loop of call k goes through.
Targets == IF request.root = "" THEN NamesOf(config) ELSE {request.root}
Sources(k) == IF k = 1 THEN Targets ELSE DepsOf(config, stack[k].name)
Left(k) == ToSet(stack[k].left)

Typed ==
  /\ config \in Configs
  /\ request \in [root : Askable, startup : BOOLEAN, made : BOOLEAN]
  /\ result.ok \in BOOLEAN
  /\ stack \in Seq(Frame)
  /\ marks \in [NamesOf(config) -> 0..2]
  /\ order \in Seq(NamesOf(config))
  /\ steps \in Seq([group : Name, host : Member])
  /\ listed \in Nat
  /\ at \in {"new", "visit", "ready", "begin", "list", "answered"}

\* The calls under way are the names marked 1, and the path from each call to
\* a later one is one of dependencies.
Calls ==
  /\ Len(stack) >= 1
  /\ \A k \in 2..Len(stack) : stack[k].name \in NamesOf(config) /\ marks[stack[k].name] = 1
  /\ \A j, k \in 2..Len(stack) : stack[j].name = stack[k].name => j = k
  /\ \A n \in NamesOf(config) : marks[n] = 1 => \E k \in 2..Len(stack) : stack[k].name = n
  /\ \A j, k \in 2..Len(stack) :
       j < k => stack[k].name \in ClosureOf(config, DepsOf(config, stack[j].name))

\* A loop has finished what it does not have left, or is in the middle of it.
Loops ==
  \A k \in 1..Len(stack) :
    /\ Left(k) \subseteq Sources(k)
    /\ \A n \in Sources(k) : \/ n \in Left(k)
                             \/ n \in NamesOf(config) /\ marks[n] = 2
                             \/ k < Len(stack) /\ n = stack[k + 1].name

\* The order has the names marked 2, each once and after its dependencies.
Ordered ==
  /\ \A i \in DOMAIN order : marks[order[i]] = 2
  /\ \A i, j \in DOMAIN order : order[i] = order[j] => i = j
  /\ \A n \in NamesOf(config) : marks[n] = 2 => \E i \in DOMAIN order : order[i] = n
  /\ \A i \in DOMAIN order : DepsOf(config, order[i]) \subseteq {order[k] : k \in 1..i - 1}

\* The search stays inside the closure of what it started from.
Reached ==
  /\ \A k \in 2..Len(stack) : stack[k].name \in ClosureOf(config, Targets)
  /\ \A i \in DOMAIN order : order[i] \in ClosureOf(config, Targets)

NamesUnique ==
  /\ \A i \in DOMAIN config : config[i].name # ""
  /\ \A i, j \in DOMAIN config : config[i].name = config[j].name => i = j

RootKnown == request.root # "" => request.root \in NamesOf(config)
Constructing == ~request.made => request.root = "" /\ NamesUnique

Searching ==
  /\ Calls /\ Loops /\ Reached
  /\ RootKnown /\ Constructing
  /\ error # "none" => ~WellFormed(config)

SearchInv ==
  /\ Ordered
  /\ at = "visit" => Searching
  /\ at = "ready" => ~request.made
  /\ at = "new" => request = NoRequest
  /\ ValidationIsExact

\* What an accepted request found.
Found ==
  /\ Targets \subseteq ToSet(order) /\ ToSet(order) \subseteq ClosureOf(config, Targets)
  /\ request.made /\ RootKnown

\* The steps are in the order of the groups listed so far, and those of each
\* group are its members.
Block(s, n, d) ==
  /\ {i \in DOMAIN s : s[i].group = n} = d + 1..d + Len(HostsAt(n))
  /\ \A k \in 1..Len(HostsAt(n)) :
       s[d + k].host = HostsAt(n)[IF request.startup THEN k ELSE Len(HostsAt(n)) + 1 - k]

Listing ==
  /\ validation = "none" /\ listed <= Len(GroupOrder)
  /\ \A i \in DOMAIN steps : \E g \in 1..listed : steps[i].group = GroupOrder[g]
  /\ \A i, j \in DOMAIN steps, g, h \in 1..listed :
       i <= j /\ steps[i].group = GroupOrder[g] /\ steps[j].group = GroupOrder[h] => g <= h
  /\ \A g \in 1..listed : \E d \in 0..Len(steps) : Block(steps, GroupOrder[g], d)

Acceptable ==
  /\ WellFormed(config)
  /\ request.root \in NamesOf(config) \cup {""}
  /\ \E n \in Wanted : HostsAt(n) # <<>>

ListInv ==
  /\ at \in {"begin", "list"} \/ result.ok => Found
  /\ at \notin {"list", "answered"} => steps = <<>> /\ listed = 0
  /\ at = "list" \/ result.ok => Listing
  /\ result.ok => at = "answered" /\ listed = Len(GroupOrder) /\ steps # <<>> /\ result.error = "none"
  /\ at = "answered" => request.made
  /\ at = "answered" /\ ~result.ok => steps = <<>> /\ result.error # "none" /\ ~Acceptable

PlanInv == Typed /\ SearchInv /\ ListInv

-----------------------------------------------------------------------------
(* What by_name and find_if find.                                          *)

\* The least number, from the well-foundedness of <.
LEMMA Least ==
  ASSUME NEW T \in SUBSET Nat, T # {}
  PROVE  \E n \in T : \A m \in T : n <= m
<1> DEFINE Less == {ss \in Nat \X Nat : ss[1] < ss[2]}
<1>1. IsWellFoundedOn(Less, Nat)
  BY NatLessThanWellFounded DEF OpToRel
<1>2. PICK n \in T : \A m \in T : ~ (<<m, n>> \in Less)
  <2> HIDE DEF Less
  <2> QED BY <1>1, WFMin
<1>3. ASSUME NEW m \in T PROVE n <= m
  <2>1. m < n => <<m, n>> \in Less
    OBVIOUS
  <2>2. ~(m < n) /\ m \in Nat /\ n \in Nat
    BY <1>2, <2>1
  <2> HIDE DEF Less
  <2> QED BY <2>2
<1> QED BY <1>3

\* The greatest, of numbers up to some bound.
LEMMA Greatest ==
  ASSUME NEW b \in Nat, NEW T \in SUBSET (1..b), T # {}
  PROVE  \E n \in T : \A m \in T : m <= n
<1> DEFINE U == {b - n : n \in T}
<1>1. PICK u \in U : \A v \in U : u <= v
  <2>1. U \in SUBSET Nat /\ U # {}
    <3>1. \A n \in T : n \in Int /\ n <= b
      OBVIOUS
    <3> QED BY <3>1
  <2> HIDE DEF U
  <2> QED BY <2>1, Least
<1>2. PICK n \in T : u = b - n
  OBVIOUS
<1>3. ASSUME NEW m \in T PROVE m <= n
  <2>1. b - n <= b - m
    BY <1>1, <1>2
  <2>2. m \in Int /\ n \in Int
    OBVIOUS
  <2> HIDE DEF U
  <2> QED BY <2>1, <2>2
<1> QED BY <1>3

LEMMA ConfigTyped ==
  ASSUME NEW cfg \in Configs
  PROVE  /\ cfg \in Seq(Group)
         /\ DOMAIN cfg = 1..Len(cfg) /\ Len(cfg) \in Nat
         /\ \A i \in DOMAIN cfg : cfg[i] \in Group
         /\ NamesOf(cfg) \subseteq Name
<1>1. cfg \in Seq(Group)
  BY ConfigsAssumption DEF ConfigsAssumption, Group
<1>2. DOMAIN cfg = 1..Len(cfg) /\ Len(cfg) \in Nat /\ \A i \in DOMAIN cfg : cfg[i] \in Group
  BY <1>1
<1> QED BY <1>1, <1>2 DEF Group, NamesOf

LEMMA ByNameFinds ==
  ASSUME NEW cfg \in Configs, NEW n \in NamesOf(cfg)
  PROVE  ByName(cfg, n) \in Group /\ ByName(cfg, n).deps \in Seq(Name)
<1> DEFINE T == {i \in DOMAIN cfg : cfg[i].name = n}
           LastNamed(i) == cfg[i].name = n /\ \A j \in DOMAIN cfg : cfg[j].name = n => j <= i
<1>1. T \in SUBSET (1..Len(cfg)) /\ T # {}
  BY ConfigTyped DEF NamesOf
<1>2. PICK i \in T : \A j \in T : j <= i
  BY <1>1, ConfigTyped, Greatest
<1>3. \E k \in DOMAIN cfg : LastNamed(k)
  BY <1>2
<1> HIDE DEF T, LastNamed
<1>4. (CHOOSE k \in DOMAIN cfg : LastNamed(k)) \in DOMAIN cfg
  BY <1>3
<1>5. ByName(cfg, n) = cfg[CHOOSE k \in DOMAIN cfg : LastNamed(k)]
  BY DEF ByName, LastNamed
<1> QED BY <1>4, <1>5, ConfigTyped DEF Group

LEMMA FirstNamedFinds ==
  ASSUME NEW cfg \in Configs, NEW n \in NamesOf(cfg)
  PROVE  FirstNamed(cfg, n) \in Group /\ FirstNamed(cfg, n).members \in Seq(Member)
<1> DEFINE T == {i \in DOMAIN cfg : cfg[i].name = n}
           First(i) == cfg[i].name = n /\ \A j \in DOMAIN cfg : cfg[j].name = n => i <= j
<1>1. T \in SUBSET Nat /\ T # {}
  <2>1. DOMAIN cfg \subseteq Nat
    BY ConfigTyped
  <2>2. \E i \in DOMAIN cfg : cfg[i].name = n
    BY DEF NamesOf
  <2> QED BY <2>1, <2>2
<1>2. PICK i \in T : \A j \in T : i <= j
  BY <1>1, Least
<1>3. \E k \in DOMAIN cfg : First(k)
  BY <1>2
<1> HIDE DEF T, First
<1>4. (CHOOSE k \in DOMAIN cfg : First(k)) \in DOMAIN cfg
  BY <1>3
<1>5. FirstNamed(cfg, n) = cfg[CHOOSE k \in DOMAIN cfg : First(k)]
  BY DEF FirstNamed, First
<1> QED BY <1>4, <1>5, ConfigTyped DEF Group

-----------------------------------------------------------------------------
(* The closure under dependencies: it holds its set, is closed, and is     *)
(* inside every closed set that holds it.                                  *)

Closed(cfg, C) == \A n \in C : DepsOf(cfg, n) \subseteq C

LEMMA ClosureHolds ==
  ASSUME NEW cfg, NEW S
  PROVE  S \subseteq ClosureOf(cfg, S)
BY DEF ClosureOf

LEMMA ClosureClosed ==
  ASSUME NEW cfg, NEW S
  PROVE  Closed(cfg, ClosureOf(cfg, S))
<1> DEFINE all == NamesOf(cfg) \cup (UNION {DepsOf(cfg, n) : n \in NamesOf(cfg)}) \cup S
           closed == {C \in SUBSET all : S \subseteq C /\ \A n \in C : DepsOf(cfg, n) \subseteq C}
<1>1. ASSUME NEW n PROVE DepsOf(cfg, n) \subseteq all
  BY DEF DepsOf
<1>2. ClosureOf(cfg, S) = {n \in all : \A C \in closed : n \in C}
  BY DEF ClosureOf
<1> HIDE DEF all
<1> QED BY <1>1, <1>2 DEF Closed

LEMMA ClosureLeast ==
  ASSUME NEW cfg, NEW S, NEW C, S \subseteq C, Closed(cfg, C)
  PROVE  ClosureOf(cfg, S) \subseteq C
<1> DEFINE all == NamesOf(cfg) \cup (UNION {DepsOf(cfg, n) : n \in NamesOf(cfg)}) \cup S
           closed == {D \in SUBSET all : S \subseteq D /\ \A n \in D : DepsOf(cfg, n) \subseteq D}
<1>1. ASSUME NEW n PROVE DepsOf(cfg, n) \subseteq all
  BY DEF DepsOf
<1>2. ClosureOf(cfg, S) = {n \in all : \A D \in closed : n \in D}
  BY DEF ClosureOf
<1>3. S \subseteq all
  OBVIOUS
<1> HIDE DEF all
<1>4. C \cap all \in closed
  BY <1>1, <1>3 DEF Closed
<1> QED BY <1>2, <1>4

-----------------------------------------------------------------------------
(* Types.                                                                  *)

LEMMA Single ==
  ASSUME NEW S, NEW x \in S
  PROVE  <<x>> \in Seq(S) /\ Len(<<x>>) = 1 /\ <<x>>[1] = x /\ ToSet(<<x>>) = {x}
<1>1. <<x>> \in Seq(S) /\ Len(<<x>>) = 1 /\ <<x>>[1] = x
  OBVIOUS
<1>2. DOMAIN <<x>> = {1}
  OBVIOUS
<1> QED BY <1>1, <1>2 DEF ToSet

LEMMA HeadAndTail ==
  ASSUME NEW S, NEW s \in Seq(S), s # <<>>
  PROVE  Head(s) \in S /\ Tail(s) \in Seq(S) /\ ToSet(s) = {Head(s)} \cup ToSet(Tail(s))
<1>1. Head(s) = s[1] /\ Tail(s) \in Seq(S) /\ Len(Tail(s)) = Len(s) - 1 /\ Len(s) \in Nat \ {0}
  OBVIOUS
<1>0. DOMAIN s = 1..Len(s) /\ DOMAIN Tail(s) = 1..Len(s) - 1 /\ 1 \in DOMAIN s /\ s[1] \in S
  BY <1>1
<1>2. \A i \in 1..Len(s) - 1 : Tail(s)[i] = s[i + 1]
  OBVIOUS
<1>3. ToSet(s) \subseteq {s[1]} \cup ToSet(Tail(s))
  <2> SUFFICES ASSUME NEW i \in 1..Len(s), i # 1
               PROVE  s[i] \in ToSet(Tail(s))
    BY <1>0 DEF ToSet
  <2>1. i - 1 \in 1..Len(s) - 1 /\ s[i] = Tail(s)[i - 1]
    <3>1. i - 1 \in 1..Len(s) - 1 /\ (i - 1) + 1 = i
      BY <1>1
    <3> QED BY <1>2, <3>1
  <2> QED BY <1>0, <2>1 DEF ToSet
<1>4. ToSet(Tail(s)) \subseteq ToSet(s)
  <2> SUFFICES ASSUME NEW i \in 1..Len(s) - 1
               PROVE  Tail(s)[i] \in ToSet(s)
    BY <1>0 DEF ToSet
  <2>1. i + 1 \in 1..Len(s)
    BY <1>1
  <2> QED BY <1>0, <1>2, <2>1 DEF ToSet
<1>5. s[1] \in ToSet(s)
  BY <1>0 DEF ToSet
<1> QED BY <1>0, <1>1, <1>3, <1>4, <1>5

LEMMA AdvancedTyped ==
  ASSUME Typed, Len(stack) >= 1, Top.left # <<>>
  PROVE  /\ Advanced \in Seq(Frame) /\ Len(Advanced) = Len(stack)
         /\ \A k \in 1..Len(stack) : Advanced[k].name = stack[k].name
         /\ \A k \in 1..Len(stack) - 1 : Advanced[k].left = stack[k].left
         /\ Advanced[Len(stack)].left = Tail(Top.left)
         /\ Head(Top.left) \in Name
         /\ ToSet(Top.left) = {Head(Top.left)} \cup ToSet(Tail(Top.left))
<1>0. stack \in Seq(Frame)
  BY DEF Typed
<1>1. stack \in Seq(Frame) /\ Len(stack) \in Nat /\ Len(stack) \in DOMAIN stack
  BY <1>0
<1>2. Top \in Frame /\ Top.left \in Seq(Name)
  <2>1. Top \in Frame
    BY <1>1 DEF Top
  <2> QED BY <2>1 DEF Frame
<1>3. Head(Top.left) \in Name /\ Tail(Top.left) \in Seq(Name)
      /\ ToSet(Top.left) = {Head(Top.left)} \cup ToSet(Tail(Top.left))
  BY <1>2, HeadAndTail
<1>4. Advanced = [stack EXCEPT ![Len(stack)] = [Top EXCEPT !.left = Tail(Top.left)]]
  BY <1>1 DEF Advanced, Top
<1>5. [Top EXCEPT !.left = Tail(Top.left)] \in Frame
  BY <1>2, <1>3 DEF Frame
<1>6. Advanced \in Seq(Frame) /\ Len(Advanced) = Len(stack)
  BY <1>1, <1>4, <1>5
<1>7. \A k \in 1..Len(stack) - 1 : Advanced[k] = stack[k]
  BY <1>1, <1>4
<1>8. Advanced[Len(stack)].left = Tail(Top.left) /\ Advanced[Len(stack)].name = stack[Len(stack)].name
  <2>1. Advanced[Len(stack)] = [Top EXCEPT !.left = Tail(Top.left)]
    BY <1>1, <1>4
  <2> QED BY <1>2, <2>1 DEF Top, Frame
<1> QED BY <1>1, <1>3, <1>6, <1>7, <1>8

\* The groups listed, and what is listed of each.
LEMMA GroupOrderTyped ==
  ASSUME Typed, Found
  PROVE  /\ OrderFor \in Seq(NamesOf(config)) /\ GroupOrder \in Seq(NamesOf(config))
         /\ Len(GroupOrder) = Len(OrderFor)
         /\ \A g \in 1..Len(OrderFor) :
              GroupOrder[g] = OrderFor[IF request.startup THEN g ELSE Len(OrderFor) + 1 - g]
<1>1. OrderFor \in Seq(NamesOf(config))
  <2>1. request.root # "" => request.root \in NamesOf(config)
    BY DEF Found, RootKnown
  <2>2. order \in Seq(NamesOf(config))
    BY DEF Typed
  <2>3. CASE request.root # "" /\ ~request.startup
    <3>1. OrderFor = <<request.root>>
      BY <2>3 DEF OrderFor
    <3> QED BY <2>1, <2>3, <3>1, Single
  <2>4. CASE ~(request.root # "" /\ ~request.startup)
    BY <2>2, <2>4 DEF OrderFor
  <2> QED BY <2>3, <2>4
<1>2. CASE request.startup
  BY <1>1, <1>2 DEF GroupOrder
<1>3. CASE ~request.startup
  <2>1. GroupOrder = [i \in 1..Len(OrderFor) |-> OrderFor[Len(OrderFor) - i + 1]]
    BY <1>3 DEF GroupOrder, Reverse
  <2> HIDE DEF OrderFor
  <2>2. \A i \in 1..Len(OrderFor) : Len(OrderFor) - i + 1 \in 1..Len(OrderFor)
                                    /\ Len(OrderFor) - i + 1 = Len(OrderFor) + 1 - i
    BY <1>1
  <2>3. GroupOrder \in Seq(NamesOf(config)) /\ Len(GroupOrder) = Len(OrderFor)
    BY <1>1, <2>1, <2>2
  <2> QED BY <1>1, <1>3, <2>1, <2>2, <2>3
<1> QED BY <1>2, <1>3

LEMMA MembersTyped ==
  ASSUME Typed, NEW n \in NamesOf(config)
  PROVE  /\ Members(n) \in Seq(Member) /\ HostsAt(n) \in Seq(Member)
         /\ Len(Members(n)) = Len(HostsAt(n))
         /\ \A k \in 1..Len(HostsAt(n)) :
              Members(n)[k] = HostsAt(n)[IF request.startup THEN k ELSE Len(HostsAt(n)) + 1 - k]
<1> DEFINE m == HostsAt(n)
<1>1. m \in Seq(Member) /\ FirstNamed(config, n).members = m
  BY FirstNamedFinds DEF Typed, HostsAt
<1>2. Members(n) = IF request.startup THEN m ELSE Reverse(m)
  BY <1>1 DEF Members
<1> HIDE DEF m
<1>3. CASE request.startup
  BY <1>1, <1>2, <1>3 DEF m
<1>4. CASE ~request.startup
  <2>1. Members(n) = [i \in 1..Len(m) |-> m[Len(m) - i + 1]]
    BY <1>2, <1>4 DEF Reverse
  <2>2. \A i \in 1..Len(m) : Len(m) - i + 1 \in 1..Len(m) /\ Len(m) - i + 1 = Len(m) + 1 - i
    BY <1>1
  <2>3. Members(n) \in Seq(Member) /\ Len(Members(n)) = Len(m)
    BY <1>1, <2>1, <2>2
  <2> QED BY <1>1, <1>4, <2>1, <2>2, <2>3 DEF m
<1> QED BY <1>3, <1>4

\* The steps of one more group.
NewSteps(n) == [k \in DOMAIN Members(n) |-> [group |-> n, host |-> Members(n)[k]]]

LEMMA NewStepsTyped ==
  ASSUME Typed, NEW n \in NamesOf(config)
  PROVE  /\ NewSteps(n) \in Seq([group : Name, host : Member])
         /\ Len(NewSteps(n)) = Len(HostsAt(n))
         /\ \A k \in 1..Len(HostsAt(n)) : NewSteps(n)[k] = [group |-> n, host |-> Members(n)[k]]
<1>1. Members(n) \in Seq(Member) /\ Len(Members(n)) = Len(HostsAt(n)) /\ n \in Name
  BY MembersTyped, ConfigTyped DEF Typed
<1>2. DOMAIN Members(n) = 1..Len(HostsAt(n)) /\ Len(HostsAt(n)) \in Nat
      /\ \A k \in 1..Len(HostsAt(n)) : Members(n)[k] \in Member
  BY <1>1
<1>3. \A k \in 1..Len(HostsAt(n)) : [group |-> n, host |-> Members(n)[k]] \in [group : Name, host : Member]
  BY <1>1, <1>2
<1>4. NewSteps(n) = [k \in 1..Len(HostsAt(n)) |-> [group |-> n, host |-> Members(n)[k]]]
  BY <1>2 DEF NewSteps
<1> QED BY <1>2, <1>3, <1>4

\* What a search starts with.
LEMMA FirstFrame ==
  ASSUME NEW l \in Seq(Name), NEW s, s = <<[name |-> "", left |-> l]>>
  PROVE  s \in Seq(Frame) /\ Len(s) = 1 /\ s[1].left = l
<1>1. [name |-> "", left |-> l] \in Frame
  BY DEF Frame
<1>2. s \in Seq(Frame) /\ Len(s) = 1 /\ s[1] = [name |-> "", left |-> l]
  BY <1>1, Single
<1> QED BY <1>2

LEMMA Unmarked == ASSUME NEW S PROVE [n \in S |-> 0] \in [S -> 0..2]
OBVIOUS

LEMMA Marked ==
  ASSUME NEW S, NEW m \in [S -> 0..2], NEW n, NEW c \in 0..2
  PROVE  [m EXCEPT ![n] = c] \in [S -> 0..2]
OBVIOUS

LEMMA RefusedIsNot == \A e : Refused(e).ok = FALSE /\ Refused(e).error = e
BY DEF Refused

LEMMA AllNames ==
  ASSUME NEW cfg \in Configs
  PROVE  [i \in DOMAIN cfg |-> cfg[i].name] \in Seq(Name)
         /\ ToSet([i \in DOMAIN cfg |-> cfg[i].name]) = NamesOf(cfg)
<1> DEFINE l == [i \in DOMAIN cfg |-> cfg[i].name]
<1>1. DOMAIN cfg = 1..Len(cfg) /\ Len(cfg) \in Nat /\ \A i \in DOMAIN cfg : cfg[i].name \in Name
  BY ConfigTyped DEF Group
<1>2. DOMAIN l = DOMAIN cfg /\ \A i \in DOMAIN cfg : l[i] = cfg[i].name
  OBVIOUS
<1>3. l \in [1..Len(cfg) -> Name]
  BY <1>1
<1> HIDE DEF l
<1>4. l \in Seq(Name)
  BY <1>1, <1>3, SeqDef
<1> QED BY <1>2, <1>4 DEF ToSet, NamesOf, l

LEMMA SearchTyped ==
  ASSUME Typed, NEW root \in Askable, Search(root)
  PROVE  /\ stack' \in Seq(Frame) /\ Len(stack') = 1
         /\ ToSet(stack'[1].left) = IF root = "" THEN NamesOf(config) ELSE {root}
         /\ marks' \in [NamesOf(config) -> 0..2] /\ order' = <<>>
<1>1. marks' = [n \in NamesOf(config) |-> 0] /\ order' = <<>>
  BY DEF Search
<1>2. config \in Configs
  BY DEF Typed
<1>3. CASE root = ""
  <2>1. stack' = <<[name |-> "", left |-> [i \in DOMAIN config |-> config[i].name]]>>
    BY <1>3 DEF Search
  <2> QED BY <1>1, <1>2, <1>3, <2>1, AllNames, FirstFrame, Unmarked
<1>4. CASE root # ""
  <2>1. root \in Name
    BY <1>4, ConfigsAssumption DEF ConfigsAssumption, Askable
  <2>2. stack' = <<[name |-> "", left |-> <<root>>]>>
    BY <1>4 DEF Search
  <2> QED BY <1>1, <1>4, <2>1, <2>2, Single, FirstFrame, Unmarked
<1> QED BY <1>3, <1>4

\* The configuration, request and search stay.
LEMMA TypedSearchKept ==
  ASSUME Typed, UNCHANGED <<config, request, searchVars>>, result'.ok \in BOOLEAN,
         steps' \in Seq([group : Name, host : Member]), listed' \in Nat,
         at' \in {"new", "visit", "ready", "begin", "list", "answered"}
  PROVE  Typed'
BY DEF Typed, searchVars

LEMMA TypedSearch ==
  ASSUME Typed, NEW root \in Askable, Search(root), result'.ok \in BOOLEAN,
         request' \in [root : Askable, startup : BOOLEAN, made : BOOLEAN],
         UNCHANGED <<config, steps, listed>>
  PROVE  Typed'
<1>1. stack' \in Seq(Frame) /\ marks' \in [NamesOf(config) -> 0..2] /\ order' = <<>>
  BY SearchTyped
<1>2. at' = "visit"
  BY DEF Search
<1>3. order' \in Seq(NamesOf(config))
  BY <1>1, EmptySeq
<1>4. NamesOf(config') = NamesOf(config)
  OBVIOUS
<1> QED BY <1>1, <1>2, <1>3, <1>4 DEF Typed

LEMMA VisitTyped ==
  ASSUME PlanInv, NEW name \in Name, Visit(name)
  PROVE  Typed'
<1>1. Typed /\ Len(stack) >= 1 /\ Top.left # <<>> /\ name = Head(Top.left)
  BY DEF Visit, PlanInv, SearchInv, Searching, Calls
<1>2. UNCHANGED <<config, request, result, steps, at, listed, order>> /\ NamesOf(config') = NamesOf(config)
  BY DEF Visit, SearchOnly
<1>3. Advanced \in Seq(Frame)
  BY <1>1, AdvancedTyped
<1>4. CASE stack' = Advanced /\ marks' = marks
  BY <1>1, <1>2, <1>3, <1>4 DEF Typed
<1>5. CASE UNCHANGED <<stack, marks>>
  BY <1>1, <1>2, <1>5 DEF Typed
<1>6. CASE /\ Refusal(name) = "none"
           /\ marks' = [marks EXCEPT ![name] = 1]
           /\ stack' = Append(Advanced, [name |-> name, left |-> ByName(config, name).deps])
  <2>1. name \in NamesOf(config) /\ config \in Configs
    BY <1>1, <1>6 DEF Refusal, Typed
  <2>2. [name |-> name, left |-> ByName(config, name).deps] \in Frame
    BY <2>1, ByNameFinds DEF Frame
  <2>3. stack' \in Seq(Frame)
    BY <1>3, <1>6, <2>2
  <2>4. marks' \in [NamesOf(config) -> 0..2]
    <3>1. marks \in [NamesOf(config) -> 0..2]
      BY <1>1 DEF Typed
    <3> QED BY <1>6, <3>1, Marked
  <2> QED BY <1>1, <1>2, <2>3, <2>4 DEF Typed
<1> QED BY <1>4, <1>5, <1>6 DEF Visit

LEMMA FinishTyped ==
  ASSUME PlanInv, Finish
  PROVE  Typed'
<1>1. Typed /\ Top.name \in NamesOf(config) /\ Len(stack) > 1
  <2>1. Typed /\ Calls /\ Len(stack) > 1
    BY DEF Finish, PlanInv, SearchInv, Searching
  <2>2. stack \in Seq(Frame)
    BY <2>1 DEF Typed
  <2>3. Len(stack) \in 2..Len(stack)
    BY <2>1, <2>2
  <2> QED BY <2>1, <2>3 DEF Calls, Top
<1>2. UNCHANGED <<config, request, result, steps, at, listed>> /\ NamesOf(config') = NamesOf(config)
  BY DEF Finish, SearchOnly
<1>3. stack' \in Seq(Frame)
  <2>1. stack \in Seq(Frame) /\ stack' = SubSeq(stack, 1, Len(stack) - 1)
    BY <1>1 DEF Finish, Typed
  <2> QED BY <2>1, <1>1
<1>4. order' \in Seq(NamesOf(config))
  <2>1. order \in Seq(NamesOf(config)) /\ order' = Append(order, Top.name)
    BY <1>1 DEF Finish, Typed
  <2> QED BY <2>1, <1>1
<1>5. marks' \in [NamesOf(config) -> 0..2]
  <2>1. marks \in [NamesOf(config) -> 0..2] /\ marks' = [marks EXCEPT ![Top.name] = 2]
    BY <1>1 DEF Finish, Typed
  <2> QED BY <2>1, Marked
<1> QED BY <1>1, <1>2, <1>3, <1>4, <1>5 DEF Typed

LEMMA TypedStep ==
  ASSUME PlanInv, [Next]_vars
  PROVE  Typed'
<1>0. Typed
  BY DEF PlanInv
<1>1. CASE Construct
  <2>1. CASE Search("")
    <3>1. UNCHANGED <<config, request, result, steps, listed>>
      BY <1>1 DEF Construct
    <3>2. "" \in Askable
      BY DEF Askable
    <3> QED BY <1>0, <2>1, <3>1, <3>2, TypedSearch DEF Typed
  <2>2. CASE UNCHANGED searchVars /\ at' = "ready"
    <3>1. UNCHANGED <<config, request, result, steps, listed>>
      BY <1>1 DEF Construct
    <3> QED BY <1>0, <2>2, <3>1, TypedSearchKept DEF Typed
  <2> QED BY <1>1, <2>1, <2>2 DEF Construct
<1>2. ASSUME NEW root \in Askable, NEW startup \in BOOLEAN, Start(root, startup)
      PROVE  Typed'
  <2>1. /\ request' \in [root : Askable, startup : BOOLEAN, made : BOOLEAN]
        /\ UNCHANGED <<config, validation, steps, listed>>
    BY <1>2 DEF Start
  <2>2. CASE Search(root) /\ UNCHANGED result
    BY <1>0, <2>1, <2>2, TypedSearch DEF Typed
  <2>3. CASE result' = Refused("unknown") /\ at' = "answered" /\ UNCHANGED searchVars
    <3>1. result'.ok \in BOOLEAN
      BY <2>3 DEF Refused
    <3> QED BY <1>0, <2>1, <2>3, <3>1 DEF Typed, searchVars
  <2> QED BY <1>2, <2>2, <2>3 DEF Start
<1>3. ASSUME NEW name \in Name, Visit(name)
      PROVE  Typed'
  BY <1>3, VisitTyped
<1>4. CASE Finish
  BY <1>4, FinishTyped
<1>5. CASE Searched
  <2>1. result'.ok \in BOOLEAN /\ at' \in {"ready", "begin", "answered"}
    <3>1. result' \in {result, Refused(error)} /\ at' \in {"ready", "begin", "answered"}
      BY <1>5 DEF Searched
    <3> QED BY <1>0, <3>1, RefusedIsNot DEF Typed
  <2>2. UNCHANGED <<config, request, steps, searchVars, listed>>
    BY <1>5 DEF Searched
  <2> QED BY <1>0, <2>1, <2>2, TypedSearchKept DEF Typed
<1>6. CASE Begin
  <2>1. result'.ok \in BOOLEAN /\ at' \in {"list", "answered"}
    <3>1. result' \in {result, Refused(validation), Refused("no groups")} /\ at' \in {"list", "answered"}
      BY <1>6 DEF Begin
    <3> QED BY <1>0, <3>1, RefusedIsNot DEF Typed
  <2>2. UNCHANGED <<config, request, steps, searchVars, listed>>
    BY <1>6 DEF Begin
  <2> QED BY <1>0, <2>1, <2>2, TypedSearchKept DEF Typed
<1>7. CASE ListGroup
  <2>1. Found
    BY <1>7 DEF ListGroup, PlanInv, ListInv
  <2>2. listed \in Nat /\ listed + 1 \in 1..Len(GroupOrder)
    <3>1. listed \in Nat /\ listed < Len(GroupOrder)
      BY <1>0, <1>7 DEF ListGroup, Typed
    <3>2. Len(GroupOrder) \in Nat
      BY <1>0, <2>1, GroupOrderTyped, LenProperties
    <3> QED BY <3>1, <3>2
  <2> DEFINE n == GroupOrder[listed + 1]
  <2>3. n \in NamesOf(config)
    BY <1>0, <2>1, <2>2, GroupOrderTyped
  <2>4. steps' = steps \o NewSteps(n)
    BY <1>7 DEF ListGroup, NewSteps
  <2> HIDE DEF n
  <2>5. steps' \in Seq([group : Name, host : Member])
    <3>1. steps \in Seq([group : Name, host : Member])
      BY <1>0 DEF Typed
    <3> QED BY <1>0, <2>3, <2>4, <3>1, NewStepsTyped, ConcatProperties
  <2>6. UNCHANGED <<config, request, result, at, searchVars>> /\ listed' = listed + 1
    BY <1>7 DEF ListGroup
  <2>7. listed' \in Nat
    BY <2>2, <2>6
  <2> QED BY <1>0, <2>5, <2>6, <2>7, TypedSearchKept DEF Typed
<1>8. CASE Listed
  <2>1. result'.ok \in BOOLEAN /\ at' = "answered"
    BY <1>0, <1>8 DEF Listed, Answer, Refused, Typed
  <2>2. UNCHANGED <<config, request, steps, searchVars, listed>>
    BY <1>8 DEF Listed
  <2> QED BY <1>0, <2>1, <2>2, TypedSearchKept DEF Typed
<1>9. CASE UNCHANGED vars
  BY <1>0, <1>9 DEF vars, searchVars, Typed
<1> QED BY <1>1, <1>2, <1>3, <1>4, <1>5, <1>6, <1>7, <1>8, <1>9 DEF Next, Askable

-----------------------------------------------------------------------------
(* The search.                                                             *)

\* What is found first holds its dependencies.
LEMMA PrefixClosed ==
  ASSUME Typed, Ordered, NEW i \in 0..Len(order)
  PROVE  Closed(config, {order[k] : k \in 1..i})
<1> SUFFICES ASSUME NEW j \in 1..i
             PROVE  DepsOf(config, order[j]) \subseteq {order[k] : k \in 1..i}
    BY DEF Closed
<1>1. Len(order) \in Nat /\ DOMAIN order = 1..Len(order)
  BY LenProperties DEF Typed
<1>2. j \in DOMAIN order /\ 1..j - 1 \subseteq 1..i
  BY <1>1
<1> QED BY <1>2 DEF Ordered

\* Nothing a group needs, directly or not, comes after it in the order.
LEMMA NeededBefore ==
  ASSUME Typed, Ordered, NEW i \in DOMAIN order
  PROVE  /\ ClosureOf(config, DepsOf(config, order[i])) \subseteq {order[k] : k \in 1..i - 1}
         /\ order[i] \notin ClosureOf(config, DepsOf(config, order[i]))
<1>1. Len(order) \in Nat /\ DOMAIN order = 1..Len(order)
  BY LenProperties DEF Typed
<1>2. i - 1 \in 0..Len(order) /\ i \notin 1..i - 1 /\ 1..i - 1 \subseteq DOMAIN order
  BY <1>1
<1>3. Closed(config, {order[k] : k \in 1..i - 1})
  BY <1>2, PrefixClosed
<1>4. DepsOf(config, order[i]) \subseteq {order[k] : k \in 1..i - 1}
  BY DEF Ordered
<1>5. ClosureOf(config, DepsOf(config, order[i])) \subseteq {order[k] : k \in 1..i - 1}
  BY <1>3, <1>4, ClosureLeast
<1>6. order[i] \notin {order[k] : k \in 1..i - 1}
  BY <1>2 DEF Ordered
<1> QED BY <1>5, <1>6

\* A search that found every group shows that there is no cycle.
LEMMA AllFoundWellFormed ==
  ASSUME Typed, Ordered, NamesUnique, NamesOf(config) \subseteq ToSet(order)
  PROVE  WellFormed(config)
<1>1. ASSUME NEW n \in NamesOf(config)
      PROVE  /\ DepsOf(config, n) \subseteq NamesOf(config)
             /\ n \notin ClosureOf(config, DepsOf(config, n))
  <2>1. PICK i \in DOMAIN order : n = order[i]
    BY <1>1 DEF ToSet
  <2>2. Len(order) \in Nat /\ DOMAIN order = 1..Len(order)
        /\ \A k \in DOMAIN order : order[k] \in NamesOf(config)
    BY LenProperties, ElementOfSeq DEF Typed
  <2>3. 1..i - 1 \subseteq DOMAIN order
    BY <2>2
  <2>4. DepsOf(config, n) \subseteq {order[k] : k \in 1..i - 1}
    BY <2>1 DEF Ordered
  <2> QED BY <2>1, <2>2, <2>3, <2>4, NeededBefore
<1> QED BY <1>1 DEF WellFormed, NamesUnique

\* The name to visit next, from the loop on top.
LEMMA NextName ==
  ASSUME Typed, Searching, Top.left # <<>>, NEW name, name = Head(Top.left)
  PROVE  /\ Len(stack) \in Nat \ {0} /\ name \in Sources(Len(stack))
         /\ Left(Len(stack)) = {name} \cup ToSet(Tail(Top.left))
<1>1. Len(stack) \in Nat /\ Len(stack) >= 1
  BY LenProperties DEF Typed, Searching, Calls
<1>2. ToSet(Top.left) = {name} \cup ToSet(Tail(Top.left))
  BY <1>1, AdvancedTyped
<1>3. Left(Len(stack)) = ToSet(Top.left)
  BY DEF Left, Top
<1>4. Left(Len(stack)) \subseteq Sources(Len(stack))
  <2>1. Loops
    BY DEF Searching
  <2>2. Len(stack) \in 1..Len(stack)
    BY <1>1
  <2> QED BY <2>1, <2>2 DEF Loops
<1> QED BY <1>1, <1>2, <1>3, <1>4

\* The search only refuses what has no such order.
LEMMA RefusalTrue ==
  ASSUME Typed, Searching, Top.left # <<>>, NEW name, name = Head(Top.left),
         name \notin NamesOf(config) \/ marks[name] = 1
  PROVE  ~WellFormed(config)
<1> DEFINE L == Len(stack)
<1>1. L \in Nat \ {0} /\ name \in Sources(L)
  BY NextName
<1>2. CASE name \notin NamesOf(config)
  <2>1. L # 1
    BY <1>1, <1>2 DEF Sources, Targets, Searching, RootKnown
  <2>2. stack[L].name \in NamesOf(config) /\ name \in DepsOf(config, stack[L].name)
    <3>1. Calls
      BY DEF Searching
    <3>0. L \in 2..L
      <4>1. L \in Nat \ {0}
        BY <1>1
      <4> HIDE DEF L
      <4> QED BY <2>1, <4>1
    <3>2. stack[L].name \in NamesOf(config)
      BY <3>0, <3>1 DEF Calls
    <3> QED BY <1>1, <2>1, <3>2 DEF Sources
  <2> QED BY <1>2, <2>2 DEF WellFormed
<1>3. CASE name \in NamesOf(config) /\ marks[name] = 1
  <2>1. PICK k \in 2..L : stack[k].name = name
    BY <1>3 DEF Searching, Calls
  <2>2. L # 1 /\ L \in 2..L
    BY <1>1, <2>1
  <2>3. name \in DepsOf(config, stack[L].name)
    BY <1>1, <2>2 DEF Sources
  <2>4. name \in ClosureOf(config, DepsOf(config, name))
    <3>1. CASE k = L
      BY <2>1, <2>3, <3>1, ClosureHolds
    <3>2. CASE k # L
      <4>1. k < L
        BY <1>1, <2>1, <3>2
      <4>2. stack[L].name \in ClosureOf(config, DepsOf(config, name))
        BY <2>1, <2>2, <4>1 DEF Searching, Calls
      <4> QED BY <2>3, <4>2, ClosureClosed DEF Closed
    <3> QED BY <3>1, <3>2
  <2> QED BY <1>3, <2>4 DEF WellFormed
<1> QED BY <1>2, <1>3

\* A search starts with the first loop alone.
LEMMA SearchStarts ==
  ASSUME Typed, NEW root \in Askable, Search(root), UNCHANGED config,
         request'.root = root, RootKnown', Constructing'
  PROVE  Ordered' /\ Searching'
<1>1. /\ stack' \in Seq(Frame) /\ Len(stack') = 1 /\ ToSet(stack'[1].left) = Targets'
      /\ NamesOf(config') = NamesOf(config)
  <2>1. ToSet(stack'[1].left) = Targets'
    BY SearchTyped DEF Targets
  <2> QED BY <2>1, SearchTyped
<1>2. marks' = [n \in NamesOf(config) |-> 0] /\ order' = <<>> /\ error' = "none"
  BY DEF Search
<1>3. \A n \in NamesOf(config) : marks'[n] # 1 /\ marks'[n] # 2
  BY <1>2
<1>4. DOMAIN order' = {} /\ 2..Len(stack') = {} /\ 1..Len(stack') = {1}
  <2>1. DOMAIN <<>> = {}
    OBVIOUS
  <2>2. 2..1 = {} /\ 1..1 = {1}
    OBVIOUS
  <2> QED BY <1>1, <1>2, <2>1, <2>2
<1>5. Ordered'
  BY <1>1, <1>3, <1>4 DEF Ordered
<1>6. Calls'
  <2>1. Len(stack') >= 1
    BY <1>1
  <2> QED BY <1>1, <1>3, <1>4, <2>1 DEF Calls
<1>7. Reached'
  BY <1>4 DEF Reached
<1>8. Loops'
  <2>1. ASSUME NEW k \in 1..Len(stack')
        PROVE  Left(k)' = Targets' /\ Sources(k)' = Targets'
    <3>1. k = 1
      BY <1>4
    <3> QED BY <1>1, <3>1 DEF Left, Sources
  <2> QED BY <2>1 DEF Loops
<1> QED BY <1>2, <1>5, <1>6, <1>7, <1>8 DEF Searching

\* Visiting a name that is finished.
LEMMA VisitSkips ==
  ASSUME PlanInv, at = "visit", Top.left # <<>>, NEW name, name = Head(Top.left),
         name \in NamesOf(config), marks[name] = 2, stack' = Advanced,
         UNCHANGED <<config, request, marks, order, error>>
  PROVE  Ordered' /\ Searching'
<1> DEFINE L == Len(stack)
<1>1. Typed /\ Ordered /\ Searching
  BY DEF PlanInv, SearchInv
<1>2. L \in Nat \ {0} /\ name \in Sources(L) /\ Left(L) = {name} \cup ToSet(Tail(Top.left))
  BY <1>1, NextName
<1>3. /\ Len(stack') = L
      /\ \A k \in 1..L : stack'[k].name = stack[k].name
      /\ \A k \in 1..L - 1 : stack'[k].left = stack[k].left
      /\ stack'[L].left = Tail(Top.left)
  BY <1>1, <1>2, AdvancedTyped
<1> HIDE DEF L
<1>4. UNCHANGED <<NamesOf(config), Targets, WellFormed(config), RootKnown, Constructing>>
  BY DEF Targets, RootKnown, Constructing, NamesUnique
<1>5. Ordered'
  BY <1>1, <1>4 DEF Ordered
<1>6. Calls' /\ Reached'
  <2>1. 2..L \subseteq 1..L /\ Len(stack') = Len(stack)
    BY <1>2, <1>3 DEF L
  <2>2. \A k \in 2..L : stack'[k].name = stack[k].name
    BY <1>3, <2>1
  <2> QED BY <1>1, <1>4, <2>1, <2>2 DEF Searching, Calls, Reached, L
<1>7. Loops'
  <2> SUFFICES ASSUME NEW k \in 1..L
               PROVE  /\ Left(k)' \subseteq Sources(k)'
                      /\ \A n \in Sources(k)' : \/ n \in Left(k)'
                                                \/ n \in NamesOf(config) /\ marks[n] = 2
                                                \/ k < L /\ n = stack'[k + 1].name
    BY <1>3 DEF Loops, L
  <2>1. Sources(k)' = Sources(k)
    BY <1>3, <1>4 DEF Sources
  <2>2. /\ Left(k) \subseteq Sources(k)
        /\ \A n \in Sources(k) : \/ n \in Left(k)
                                 \/ n \in NamesOf(config) /\ marks[n] = 2
                                 \/ k < L /\ n = stack[k + 1].name
    <3>1. Loops
      BY <1>1 DEF Searching
    <3> QED BY <3>1 DEF Loops, L
  <2>3. k < L => stack'[k + 1].name = stack[k + 1].name
    <3>1. k < L => k + 1 \in 1..L
      BY <1>2
    <3> QED BY <1>3, <3>1
  <2>4. CASE k = L
    <3>1. Left(k)' = ToSet(Tail(Top.left))
      BY <1>3, <2>4 DEF Left
    <3> QED BY <1>2, <2>1, <2>2, <2>3, <2>4, <3>1
  <2>5. CASE k # L
    <3>1. k \in 1..L - 1
      BY <1>2, <2>5
    <3>2. Left(k)' = Left(k)
      BY <1>3, <3>1 DEF Left
    <3> QED BY <2>1, <2>2, <2>3, <3>2
  <2> QED BY <2>4, <2>5
<1> QED BY <1>1, <1>4, <1>5, <1>6, <1>7 DEF Searching

\* Visiting a name for the first time: one more call.
LEMMA VisitCalls ==
  ASSUME PlanInv, at = "visit", Top.left # <<>>, NEW name, name = Head(Top.left),
         name \in NamesOf(config), marks[name] = 0,
         marks' = [marks EXCEPT ![name] = 1],
         stack' = Append(Advanced, [name |-> name, left |-> ByName(config, name).deps]),
         UNCHANGED <<config, request, order, error>>
  PROVE  Ordered' /\ Searching'
<1> DEFINE L == Len(stack)
<1>1. Typed /\ Ordered /\ Searching
  BY DEF PlanInv, SearchInv
<1>2. L \in Nat \ {0} /\ name \in Sources(L) /\ Left(L) = {name} \cup ToSet(Tail(Top.left))
  BY <1>1, NextName
<1>3. /\ Len(stack') = L + 1
      /\ \A k \in 1..L : stack'[k].name = stack[k].name
      /\ \A k \in 1..L - 1 : stack'[k].left = stack[k].left
      /\ stack'[L].left = Tail(Top.left)
      /\ stack'[L + 1].name = name /\ stack'[L + 1].left = ByName(config, name).deps
  <2>1. /\ Advanced \in Seq(Frame) /\ Len(Advanced) = L
        /\ \A k \in 1..L : Advanced[k].name = stack[k].name
        /\ \A k \in 1..L - 1 : Advanced[k].left = stack[k].left
        /\ Advanced[L].left = Tail(Top.left)
    BY <1>1, <1>2, AdvancedTyped
  <2> HIDE DEF L
  <2>2. \A f : /\ Len(Append(Advanced, f)) = L + 1
               /\ \A k \in 1..L : Append(Advanced, f)[k] = Advanced[k]
               /\ Append(Advanced, f)[L + 1] = f
    BY <1>2, <2>1
  <2>3. /\ Len(stack') = L + 1 /\ \A k \in 1..L : stack'[k] = Advanced[k]
        /\ stack'[L + 1] = [name |-> name, left |-> ByName(config, name).deps]
    BY <2>2
  <2> QED BY <1>2, <2>1, <2>3
<1> HIDE DEF L
<1>4. UNCHANGED <<NamesOf(config), Targets, WellFormed(config), RootKnown, Constructing>>
  BY DEF Targets, RootKnown, Constructing, NamesUnique
<1>5. /\ marks'[name] = 1 /\ \A n \in NamesOf(config) : n # name => marks'[n] = marks[n]
      /\ \A n \in NamesOf(config) : marks'[n] = 2 <=> marks[n] = 2
  BY <1>1 DEF Typed
<1>6. Ordered'
  <2>1. \A i \in DOMAIN order : order[i] \in NamesOf(config)
    BY <1>1, LenProperties, ElementOfSeq DEF Typed
  <2> QED BY <1>1, <1>4, <1>5, <2>1 DEF Ordered
<1>7. Calls /\ Loops /\ Reached
  BY <1>1 DEF Searching
<1>8. \A k \in 2..L : stack[k].name # name /\ stack'[k].name = stack[k].name
  <2>1. \A k \in 2..L : marks[stack[k].name] = 1
    BY <1>7 DEF Calls, L
  <2>2. 2..L \subseteq 1..L
    BY <1>2
  <2>3. \A k \in 2..L : stack[k].name # name
    BY <2>1
  <2> QED BY <1>3, <2>2, <2>3
<1>9. 2..L + 1 = 2..L \cup {L + 1} /\ L + 1 \notin 2..L
  BY <1>2
<1>10. /\ \A k \in 2..L : name \in ClosureOf(config, DepsOf(config, stack[k].name))
       /\ name \in ClosureOf(config, Targets)
  <2>1. CASE L = 1
    <3>1. name \in Targets /\ 2..L = {}
      BY <1>2, <2>1 DEF Sources
    <3> QED BY <3>1, ClosureHolds
  <2>2. CASE L # 1
    <3>1. L \in 2..L
      BY <1>2, <2>2
    <3>2. name \in DepsOf(config, stack[L].name)
      BY <1>2, <2>2 DEF Sources
    <3>3. stack[L].name \in ClosureOf(config, Targets)
      BY <1>7, <3>1 DEF Reached, L
    <3>4. ASSUME NEW k \in 2..L
          PROVE  name \in ClosureOf(config, DepsOf(config, stack[k].name))
      <4>1. CASE k = L
        BY <3>2, <4>1, ClosureHolds
      <4>2. CASE k # L
        <5>1. k < L
          BY <1>2, <4>2
        <5>2. stack[L].name \in ClosureOf(config, DepsOf(config, stack[k].name))
          BY <1>7, <3>1, <5>1 DEF Calls, L
        <5> QED BY <3>2, <5>2, ClosureClosed DEF Closed
      <4> QED BY <4>1, <4>2
    <3> QED BY <3>2, <3>3, <3>4, ClosureClosed DEF Closed
  <2> QED BY <2>1, <2>2
<1>11. Calls'
  <2>1. Len(stack') >= 1
    BY <1>2, <1>3
  <2>2. \A k \in 2..L + 1 : stack'[k].name \in NamesOf(config) /\ marks'[stack'[k].name] = 1
    BY <1>3, <1>5, <1>7, <1>8, <1>9 DEF Calls, L
  <2>3. \A j, k \in 2..L + 1 : stack'[j].name = stack'[k].name => j = k
    BY <1>3, <1>7, <1>8, <1>9 DEF Calls, L
  <2>4. ASSUME NEW n \in NamesOf(config), marks'[n] = 1
        PROVE  \E k \in 2..L + 1 : stack'[k].name = n
    <3>1. CASE n = name
      BY <1>3, <1>9, <3>1
    <3>2. CASE n # name
      <4>1. marks[n] = 1
        BY <1>5, <2>4, <3>2
      <4>2. PICK k \in 2..L : stack[k].name = n
        BY <1>7, <4>1 DEF Calls, L
      <4> QED BY <1>8, <1>9, <4>2
    <3> QED BY <3>1, <3>2
  <2>5. ASSUME NEW j \in 2..L + 1, NEW k \in 2..L + 1, j < k
        PROVE  stack'[k].name \in ClosureOf(config, DepsOf(config, stack'[j].name))
    <3>1. j \in 2..L
      BY <1>2, <2>5
    <3>2. CASE k \in 2..L
      BY <1>7, <1>8, <2>5, <3>1, <3>2 DEF Calls, L
    <3>3. CASE k = L + 1
      BY <1>3, <1>8, <1>10, <3>1, <3>3
    <3> QED BY <1>9, <3>2, <3>3
  <2> QED BY <1>3, <1>4, <2>1, <2>2, <2>3, <2>4, <2>5 DEF Calls
<1>12. Reached'
  BY <1>3, <1>4, <1>7, <1>8, <1>9, <1>10 DEF Reached, L
<1>13. Loops'
  <2> SUFFICES ASSUME NEW k \in 1..L + 1
               PROVE  /\ Left(k)' \subseteq Sources(k)'
                      /\ \A n \in Sources(k)' : \/ n \in Left(k)'
                                                \/ n \in NamesOf(config) /\ marks'[n] = 2
                                                \/ k < L + 1 /\ n = stack'[k + 1].name
    BY <1>3 DEF Loops
  <2>1. CASE k = L + 1
    <3>1. k # 1
      BY <1>2, <2>1
    <3>2. Sources(k)' = DepsOf(config, name)
      BY <1>3, <2>1, <3>1 DEF Sources
    <3>3. Left(k)' = DepsOf(config, name)
      BY <1>3, <2>1 DEF Left, DepsOf
    <3> QED BY <3>2, <3>3
  <2>2. CASE k \in 1..L
    <3>1. Sources(k)' = Sources(k)
      BY <1>3, <1>4, <2>2 DEF Sources
    <3>2. /\ Left(k) \subseteq Sources(k)
          /\ \A n \in Sources(k) : \/ n \in Left(k)
                                   \/ n \in NamesOf(config) /\ marks[n] = 2
                                   \/ k < L /\ n = stack[k + 1].name
      BY <1>7, <2>2 DEF Loops, L
    <3>3. k < L + 1
      BY <1>2, <2>2
    <3>4. CASE k = L
      <4>1. Left(k)' = ToSet(Tail(Top.left)) /\ stack'[k + 1].name = name
        BY <1>3, <3>4 DEF Left
      <4>2. ~(k < L)
        BY <1>2, <3>4
      <4> QED BY <1>2, <1>5, <3>1, <3>2, <3>3, <3>4, <4>1, <4>2
    <3>5. CASE k # L
      <4>1. k \in 1..L - 1 /\ k + 1 \in 1..L
        BY <1>2, <2>2, <3>5
      <4>2. Left(k)' = Left(k) /\ stack'[k + 1].name = stack[k + 1].name
        BY <1>3, <4>1 DEF Left
      <4> QED BY <1>5, <3>1, <3>2, <3>3, <4>2
    <3> QED BY <3>4, <3>5
  <2>3. k = L + 1 \/ k \in 1..L
    BY <1>2
  <2> QED BY <2>1, <2>2, <2>3
<1> QED BY <1>1, <1>4, <1>6, <1>11, <1>12, <1>13 DEF Searching

\* A call whose loop has nothing left is finished.
LEMMA FinishStep ==
  ASSUME PlanInv, Finish
  PROVE  Ordered' /\ Searching'
<1> DEFINE L == Len(stack)
           M == Len(order)
<1>1. Typed /\ Ordered /\ Searching /\ Calls /\ Loops /\ Reached
  BY DEF PlanInv, SearchInv, Finish, Searching
<1>2. /\ stack \in Seq(Frame) /\ L \in Nat /\ L > 1 /\ L \in 2..L
      /\ order \in Seq(NamesOf(config)) /\ M \in Nat /\ DOMAIN order = 1..M
  <2>1. stack \in Seq(Frame) /\ L \in Nat /\ order \in Seq(NamesOf(config)) /\ M \in Nat
        /\ DOMAIN order = 1..M
    BY <1>1, LenProperties DEF Typed
  <2>2. L > 1
    BY DEF Finish
  <2> HIDE DEF L, M
  <2> QED BY <2>1, <2>2
<1>3. /\ Len(stack') = L - 1 /\ \A k \in 1..L - 1 : stack'[k] = stack[k]
  <2>1. stack' = SubSeq(stack, 1, L - 1)
    BY DEF Finish
  <2>2. 1 \in Nat /\ L - 1 \in Nat /\ L - 1 <= L
    BY <1>2
  <2> HIDE DEF L
  <2> QED BY <1>2, <2>1, <2>2
<1>4. /\ DOMAIN order' = 1..M + 1 /\ \A i \in 1..M : order'[i] = order[i]
      /\ order'[M + 1] = stack[L].name
  <2>1. order' = Append(order, stack[L].name)
    BY DEF Finish, Top
  <2> QED BY <1>2, <2>1
<1> HIDE DEF L, M
<1>5. UNCHANGED <<config, request, error>> /\ Top.left = <<>>
      /\ UNCHANGED <<NamesOf(config), Targets, WellFormed(config), RootKnown, Constructing>>
  BY DEF Finish, SearchOnly, Targets, RootKnown, Constructing, NamesUnique
<1> DEFINE top == stack[L].name
<1>6. top \in NamesOf(config) /\ marks[top] = 1 /\ \A k \in 2..L - 1 : stack[k].name # top
  <2>1. \A k \in 2..L - 1 : k \in 2..L /\ k # L
    BY <1>2
  <2> QED BY <1>1, <1>2, <2>1 DEF Calls, L
<1>7. /\ marks'[top] = 2 /\ \A n \in NamesOf(config) : n # top => marks'[n] = marks[n]
  <2>1. marks' = [marks EXCEPT ![top] = 2]
    BY DEF Finish, Top, L
  <2>2. marks \in [NamesOf(config) -> 0..2]
    BY <1>1 DEF Typed
  <2> HIDE DEF top
  <2> QED BY <1>6, <2>1, <2>2
<1>8. DepsOf(config, top) \subseteq {order[i] : i \in 1..M}
  <2>1. Sources(L) = DepsOf(config, top)
    <3>1. L # 1
      BY <1>2
    <3> QED BY <3>1 DEF Sources
  <2>2. Left(L) = {}
    <3>1. Left(L) = ToSet(<<>>)
      BY <1>5 DEF Left, Top, L
    <3> QED BY <3>1 DEF ToSet
  <2>3. L \in 1..L /\ ~(L < L)
    BY <1>2
  <2>4. \A n \in Sources(L) : n \in NamesOf(config) /\ marks[n] = 2
    BY <1>1, <2>2, <2>3 DEF Loops, L
  <2> QED BY <1>1, <1>2, <2>1, <2>4 DEF Ordered
<1> HIDE DEF top
<1>9. \A i \in 1..M : order[i] \in NamesOf(config) /\ order[i] # top
  <2>1. \A i \in 1..M : marks[order[i]] = 2
    BY <1>1, <1>2 DEF Ordered
  <2>2. \A i \in 1..M : order[i] # top
    BY <1>6, <2>1
  <2> QED BY <1>2, <2>2
<1>10. 1..M + 1 = 1..M \cup {M + 1} /\ M + 1 \notin 1..M
  BY <1>2
<1>11. Ordered'
  <2>1. \A i \in 1..M + 1 : marks'[order'[i]] = 2
    <3>1. \A i \in 1..M : marks'[order'[i]] = 2
      BY <1>1, <1>2, <1>4, <1>7, <1>9 DEF Ordered
    <3>2. marks'[order'[M + 1]] = 2
      BY <1>4, <1>7 DEF top
    <3> QED BY <1>10, <3>1, <3>2
  <2>2. \A i, j \in 1..M + 1 : order'[i] = order'[j] => i = j
    BY <1>1, <1>2, <1>4, <1>9, <1>10 DEF Ordered, top
  <2>3. ASSUME NEW n \in NamesOf(config), marks'[n] = 2
        PROVE  \E i \in 1..M + 1 : order'[i] = n
    <3>1. CASE n = top
      BY <1>4, <1>10, <3>1 DEF top
    <3>2. CASE n # top
      <4>1. PICK i \in 1..M : order[i] = n
        BY <1>1, <1>2, <1>7, <2>3, <3>2 DEF Ordered
      <4> QED BY <1>4, <1>10, <4>1
    <3> QED BY <3>1, <3>2
  <2>4. ASSUME NEW i \in 1..M + 1
        PROVE  DepsOf(config, order'[i]) \subseteq {order'[k] : k \in 1..i - 1}
    <3>1. CASE i \in 1..M
      <4>1. DepsOf(config, order[i]) \subseteq {order[k] : k \in 1..i - 1}
        BY <1>1, <1>2, <3>1 DEF Ordered
      <4>2. 1..i - 1 \subseteq 1..M
        BY <1>2, <3>1
      <4> QED BY <1>4, <3>1, <4>1, <4>2
    <3>2. CASE i = M + 1
      <4>1. i - 1 = M
        BY <1>2, <3>2
      <4> QED BY <1>4, <1>8, <3>2, <4>1 DEF top
    <3> QED BY <1>10, <3>1, <3>2
  <2> QED BY <1>4, <1>5, <2>1, <2>2, <2>3, <2>4 DEF Ordered
<1>12. /\ 2..L - 1 \subseteq 2..L /\ 2..L - 1 \subseteq 1..L - 1
       /\ \A k \in 2..L : k = L \/ k \in 2..L - 1
  BY <1>2
<1>13. Calls'
  <2>1. L - 1 >= 1
    BY <1>2
  <2>2. \A k \in 2..L - 1 : stack'[k].name \in NamesOf(config) /\ marks'[stack'[k].name] = 1
    <3>1. \A k \in 2..L - 1 : stack[k].name \in NamesOf(config) /\ marks[stack[k].name] = 1
      BY <1>1, <1>12 DEF Calls, L
    <3>2. \A k \in 2..L - 1 : stack'[k].name = stack[k].name
      BY <1>3, <1>12
    <3> QED BY <1>6, <1>7, <3>1, <3>2
  <2>3. \A j, k \in 2..L - 1 : stack'[j].name = stack'[k].name => j = k
    BY <1>1, <1>3, <1>12 DEF Calls, L
  <2>4. ASSUME NEW n \in NamesOf(config), marks'[n] = 1
        PROVE  \E k \in 2..L - 1 : stack'[k].name = n
    <3>1. n # top
      BY <1>7, <2>4
    <3>2. marks[n] = 1
      BY <1>7, <2>4, <3>1
    <3>3. PICK k \in 2..L : stack[k].name = n
      BY <1>1, <3>2 DEF Calls, L
    <3>4. k \in 2..L - 1
      BY <1>12, <3>1, <3>3 DEF top
    <3> QED BY <1>3, <1>12, <3>3, <3>4
  <2>5. \A j, k \in 2..L - 1 :
          j < k => stack'[k].name \in ClosureOf(config, DepsOf(config, stack'[j].name))
    BY <1>1, <1>3, <1>12 DEF Calls, L
  <2> QED BY <1>3, <1>5, <2>1, <2>2, <2>3, <2>4, <2>5 DEF Calls
<1>14. Reached'
  <2>1. \A k \in 2..L - 1 : stack'[k].name \in ClosureOf(config, Targets)
    BY <1>1, <1>3, <1>12 DEF Reached, L
  <2>2. top \in ClosureOf(config, Targets)
    BY <1>1, <1>2 DEF Reached, L, top
  <2>3. \A i \in 1..M + 1 : order'[i] \in ClosureOf(config, Targets)
    BY <1>1, <1>2, <1>4, <1>10, <2>2 DEF Reached, top
  <2> QED BY <1>3, <1>4, <1>5, <2>1, <2>3 DEF Reached
<1>15. Loops'
  <2> SUFFICES ASSUME NEW k \in 1..L - 1
               PROVE  /\ Left(k)' \subseteq Sources(k)'
                      /\ \A n \in Sources(k)' : \/ n \in Left(k)'
                                                \/ n \in NamesOf(config) /\ marks'[n] = 2
                                                \/ k < L - 1 /\ n = stack'[k + 1].name
    BY <1>3, <1>5 DEF Loops
  <2>1. Sources(k)' = Sources(k) /\ Left(k)' = Left(k)
    BY <1>3, <1>5 DEF Sources, Left
  <2>2. k \in 1..L /\ (k = L - 1 \/ (k < L - 1 /\ k + 1 \in 1..L - 1)) /\ L - 1 + 1 = L
    BY <1>2
  <2>3. /\ Left(k) \subseteq Sources(k)
        /\ \A n \in Sources(k) : \/ n \in Left(k)
                                 \/ n \in NamesOf(config) /\ marks[n] = 2
                                 \/ n = stack[k + 1].name
    BY <1>1, <2>2 DEF Loops, L
  <2>4. \A n \in NamesOf(config) : marks[n] = 2 => marks'[n] = 2
    BY <1>7
  <2>5. CASE k = L - 1
    <3>1. stack[k + 1].name = top
      BY <2>2, <2>5 DEF top
    <3> QED BY <1>6, <1>7, <2>1, <2>3, <2>4, <3>1
  <2>6. CASE k < L - 1 /\ k + 1 \in 1..L - 1
    <3>1. stack[k + 1].name = stack'[k + 1].name
      BY <1>3, <2>6
    <3> QED BY <2>1, <2>3, <2>4, <2>6, <3>1
  <2> QED BY <2>2, <2>5, <2>6
<1> QED BY <1>1, <1>5, <1>11, <1>13, <1>14, <1>15 DEF Searching

\* A visit that is refused.
LEMMA VisitRefused ==
  ASSUME PlanInv, at = "visit", Top.left # <<>>, NEW name, name = Head(Top.left),
         name \notin NamesOf(config) \/ marks[name] = 1,
         UNCHANGED <<config, request, stack, marks, order>>
  PROVE  Ordered' /\ Searching'
<1>1. Typed /\ Ordered /\ Searching
  BY DEF PlanInv, SearchInv
<1>2. ~WellFormed(config)
  BY <1>1, RefusalTrue
<1>3. Ordered'
  BY <1>1 DEF Ordered
<1>4. Calls' /\ Reached' /\ RootKnown' /\ Constructing' /\ ~WellFormed(config')
  BY <1>1, <1>2 DEF Searching, Calls, Reached, RootKnown, Constructing, NamesUnique, Targets
<1>5. Loops'
  BY <1>1 DEF Searching, Loops, Left, Sources, Targets
<1> QED BY <1>3, <1>4, <1>5 DEF Searching

LEMMA VisitSearches ==
  ASSUME PlanInv, NEW name \in Name, Visit(name)
  PROVE  Ordered' /\ Searching'
<1>1. at = "visit" /\ Top.left # <<>> /\ name = Head(Top.left) /\ UNCHANGED <<config, request>>
  BY DEF Visit, SearchOnly
<1>2. CASE Refusal(name) # "none" /\ UNCHANGED <<stack, marks, order>>
  <2>1. name \notin NamesOf(config) \/ marks[name] = 1
    BY <1>2 DEF Refusal
  <2> QED BY <1>1, <1>2, <2>1, VisitRefused
<1>3. CASE /\ Refusal(name) = "none" /\ marks[name] # 0
           /\ stack' = Advanced
           /\ UNCHANGED <<marks, order, error>>
  <2>1. name \in NamesOf(config) /\ marks[name] # 1
    BY <1>3 DEF Refusal
  <2>2. marks[name] = 2
    <3>1. marks[name] \in 0..2
      BY <2>1 DEF PlanInv, Typed
    <3> HIDE DEF Typed
    <3>2. marks[name] # 0
      BY <1>3
    <3> QED BY <2>1, <3>1, <3>2
  <2> QED BY <1>1, <1>3, <2>1, <2>2, VisitSkips
<1>4. CASE /\ Refusal(name) = "none" /\ marks[name] = 0
           /\ marks' = [marks EXCEPT ![name] = 1]
           /\ stack' = Append(Advanced, [name |-> name, left |-> ByName(config, name).deps])
           /\ UNCHANGED <<order, error>>
  <2>1. name \in NamesOf(config)
    BY <1>4 DEF Refusal
  <2> QED BY <1>1, <1>4, <2>1, VisitCalls
<1> QED BY <1>2, <1>3, <1>4 DEF Visit

\* A search that ends well found what it was started with.
LEMMA SearchEnds ==
  ASSUME PlanInv, at = "visit", Len(stack) = 1, Top.left = <<>>
  PROVE  Targets \subseteq ToSet(order) /\ ToSet(order) \subseteq ClosureOf(config, Targets)
<1>1. Typed /\ Ordered /\ Loops /\ Reached
  BY DEF PlanInv, SearchInv, Searching
<1>2. Left(1) = {} /\ Sources(1) = Targets
  <2>1. Left(1) = ToSet(<<>>)
    BY DEF Left, Top
  <2> QED BY <2>1 DEF ToSet, Sources
<1>3. 1 \in 1..Len(stack) /\ ~(1 < Len(stack))
  OBVIOUS
<1>4. \A n \in Targets : n \in NamesOf(config) /\ marks[n] = 2
  BY <1>1, <1>2, <1>3 DEF Loops
<1> QED BY <1>1, <1>4 DEF Ordered, Reached, ToSet

LEMMA SearchKept ==
  ASSUME SearchInv, UNCHANGED <<config, validation, request, searchVars>>,
         at' \in {"begin", "list", "answered"}
  PROVE  SearchInv'
<1>1. Ordered'
  BY DEF SearchInv, Ordered, searchVars
<1>2. ValidationIsExact'
  BY DEF SearchInv, ValidationIsExact, Constructed
<1> QED BY <1>1, <1>2 DEF SearchInv

\* Names that pass the test of the constructor are not empty and unique.
LEMMA NamesTested ==
  ASSUME Typed
  PROVE  (\E i \in DOMAIN config :
             \/ config[i].name = ""
             \/ \E j \in DOMAIN config : j < i /\ config[j].name = config[i].name)
         <=> ~NamesUnique
<1>1. DOMAIN config = 1..Len(config) /\ Len(config) \in Nat
  BY ConfigTyped DEF Typed
<1>2. \A i, j \in DOMAIN config : i < j \/ j < i \/ i = j
  BY <1>1
<1>3. \A i, j \in DOMAIN config : j < i => i # j
  BY <1>1
<1> QED BY <1>2, <1>3 DEF NamesUnique

LEMMA SearchStep ==
  ASSUME PlanInv, [Next]_vars
  PROVE  SearchInv'
<1>0. Typed /\ SearchInv /\ ListInv
  BY DEF PlanInv
<1>1. CASE Construct
  <2>1. request = NoRequest /\ ~request.made /\ UNCHANGED <<config, request>> /\ ~request'.made
    <3>1. at = "new" /\ UNCHANGED <<config, request>>
      BY <1>1 DEF Construct
    <3>2. request = NoRequest
      BY <1>0, <3>1 DEF SearchInv
    <3>3. ~NoRequest.made
      BY DEF NoRequest
    <3> QED BY <3>1, <3>2, <3>3
  <2>2. CASE ~NamesUnique
    <3>1. validation' = "names" /\ at' = "ready" /\ UNCHANGED searchVars
      BY <1>0, <1>1, <2>2, NamesTested DEF Construct
    <3>2. ~WellFormed(config)
      BY <2>2 DEF WellFormed, NamesUnique
    <3>3. Ordered'
      BY <1>0, <2>1, <3>1 DEF SearchInv, Ordered, searchVars
    <3> QED BY <2>1, <3>1, <3>2, <3>3 DEF SearchInv, ValidationIsExact
  <2>3. CASE NamesUnique
    <3>1. Search("") /\ at' = "visit"
      BY <1>0, <1>1, <2>3, NamesTested DEF Construct, Search
    <3>2. "" \in Askable /\ request'.root = "" /\ RootKnown' /\ Constructing'
      BY <2>1, <2>3 DEF Askable, NoRequest, RootKnown, Constructing, NamesUnique
    <3>3. Ordered' /\ Searching'
      BY <1>0, <2>1, <3>1, <3>2, SearchStarts
    <3> QED BY <2>1, <3>1, <3>3 DEF SearchInv, ValidationIsExact, Constructed
  <2> QED BY <2>2, <2>3
<1>2. ASSUME NEW root \in Askable, NEW startup \in BOOLEAN, Start(root, startup)
      PROVE  SearchInv'
  <2>1. /\ at = "ready" /\ request'.root = root /\ request'.made
        /\ UNCHANGED <<config, validation>>
    BY <1>2 DEF Start
  <2>2. ValidationIsExact'
    BY <1>0, <2>1 DEF SearchInv, ValidationIsExact, Constructed
  <2>3. CASE root # "" /\ root \notin NamesOf(config)
    <3>1. at' = "answered" /\ UNCHANGED searchVars
      BY <1>2, <2>3 DEF Start
    <3>2. Ordered'
      BY <1>0, <2>1, <3>1 DEF SearchInv, Ordered, searchVars
    <3> QED BY <2>2, <3>1, <3>2 DEF SearchInv
  <2>4. CASE ~(root # "" /\ root \notin NamesOf(config))
    <3>1. Search(root) /\ at' = "visit"
      BY <1>2, <2>4 DEF Start, Search
    <3>2. RootKnown' /\ Constructing'
      BY <2>1, <2>4 DEF RootKnown, Constructing
    <3>3. Ordered' /\ Searching'
      BY <1>0, <2>1, <3>1, <3>2, SearchStarts
    <3> QED BY <2>2, <3>1, <3>3 DEF SearchInv
  <2> QED BY <2>3, <2>4
<1>3. ASSUME NEW name \in Name, Visit(name)
      PROVE  SearchInv'
  <2>1. Ordered' /\ Searching'
    BY <1>3, VisitSearches
  <2>2. at = "visit" /\ at' = "visit" /\ UNCHANGED <<config, validation, request>>
    BY <1>3 DEF Visit, SearchOnly
  <2>3. ValidationIsExact'
    BY <1>0, <2>2 DEF SearchInv, ValidationIsExact, Constructed
  <2> QED BY <2>1, <2>2, <2>3 DEF SearchInv
<1>4. CASE Finish
  <2>1. Ordered' /\ Searching'
    BY <1>4, FinishStep
  <2>2. at = "visit" /\ at' = "visit" /\ UNCHANGED <<config, validation, request>>
    BY <1>4 DEF Finish, SearchOnly
  <2>3. ValidationIsExact'
    BY <1>0, <2>2 DEF SearchInv, ValidationIsExact, Constructed
  <2> QED BY <2>1, <2>2, <2>3 DEF SearchInv
<1>5. CASE Searched
  <2>1. CASE request.made
    <3>1. at' \in {"begin", "list", "answered"} /\ UNCHANGED <<config, validation, request, searchVars>>
      BY <1>5, <2>1 DEF Searched
    <3> QED BY <1>0, <3>1, SearchKept
  <2>2. CASE ~request.made
    <3>1. validation' = error /\ at' = "ready" /\ UNCHANGED <<config, request, searchVars>>
      BY <1>5, <2>2 DEF Searched
    <3>2. Searching /\ at = "visit"
      BY <1>0, <1>5 DEF SearchInv, Searched
    <3>3. error = "none" => WellFormed(config)
      <4> SUFFICES ASSUME error = "none" PROVE WellFormed(config)
        OBVIOUS
      <4>1. Len(stack) = 1 /\ Top.left = <<>>
        BY <1>5 DEF Searched
      <4>2. Targets = NamesOf(config) /\ NamesUnique
        BY <2>2, <3>2 DEF Searching, Constructing, Targets
      <4>3. NamesOf(config) \subseteq ToSet(order)
        BY <3>2, <4>1, <4>2, SearchEnds
      <4> QED BY <1>0, <4>2, <4>3, AllFoundWellFormed DEF SearchInv
    <3>4. error # "none" => ~WellFormed(config)
      BY <3>2 DEF Searching
    <3>5. ValidationIsExact'
      BY <3>1, <3>3, <3>4 DEF ValidationIsExact
    <3>6. Ordered'
      BY <1>0, <3>1 DEF SearchInv, Ordered, searchVars
    <3> QED BY <2>2, <3>1, <3>5, <3>6 DEF SearchInv
  <2> QED BY <2>1, <2>2
<1>6. CASE Begin \/ ListGroup \/ Listed
  <2>1. at' \in {"begin", "list", "answered"} /\ UNCHANGED <<config, validation, request, searchVars>>
    BY <1>6 DEF Begin, ListGroup, Listed
  <2> QED BY <1>0, <2>1, SearchKept
<1>7. CASE UNCHANGED vars
  <2>1. Ordered' /\ ValidationIsExact'
    BY <1>0, <1>7 DEF SearchInv, Ordered, ValidationIsExact, Constructed, vars, searchVars
  <2>2. ASSUME Searching PROVE Searching'
    <3>1. Calls' /\ Reached'
      BY <1>7, <2>2 DEF Searching, Calls, Reached, Targets, vars, searchVars
    <3>2. Loops'
      BY <1>7, <2>2 DEF Searching, Loops, Left, Sources, Targets, vars, searchVars
    <3>3. RootKnown' /\ Constructing' /\ (error' # "none" => ~WellFormed(config'))
      BY <1>7, <2>2 DEF Searching, RootKnown, Constructing, NamesUnique, vars, searchVars
    <3> QED BY <3>1, <3>2, <3>3 DEF Searching
  <2> QED BY <1>0, <1>7, <2>1, <2>2 DEF SearchInv, vars
<1> QED BY <1>1, <1>2, <1>3, <1>4, <1>5, <1>6, <1>7 DEF Next, Askable

-----------------------------------------------------------------------------
(* The steps.                                                              *)

\* The groups listed are those the request is about, each once.
LEMMA WantedListed ==
  ASSUME Typed, Ordered, Found
  PROVE  /\ ToSet(OrderFor) = Wanted /\ Wanted \subseteq NamesOf(config)
         /\ \A n \in Wanted : \E g \in 1..Len(GroupOrder) : GroupOrder[g] = n
         /\ \A g \in 1..Len(GroupOrder) : GroupOrder[g] \in Wanted
         /\ \A g, h \in 1..Len(GroupOrder) : GroupOrder[g] = GroupOrder[h] => g = h
<1> DEFINE L == Len(OrderFor)
           pos(g) == IF request.startup THEN g ELSE L + 1 - g
<1>1. /\ OrderFor \in Seq(NamesOf(config)) /\ L \in Nat /\ Len(GroupOrder) = L
      /\ DOMAIN OrderFor = 1..L /\ \A g \in 1..L : GroupOrder[g] = OrderFor[pos(g)]
      /\ \A g \in 1..L : OrderFor[g] \in NamesOf(config)
  BY GroupOrderTyped, LenProperties, ElementOfSeq
<1>2. ToSet(OrderFor) = Wanted /\ \A i, j \in 1..L : OrderFor[i] = OrderFor[j] => i = j
  <2>1. CASE request.root # "" /\ ~request.startup
    <3>1. OrderFor = <<request.root>> /\ Wanted = {request.root}
      BY <2>1 DEF OrderFor, Wanted
    <3>2. ToSet(<<request.root>>) = {request.root} /\ Len(<<request.root>>) = 1
      BY Single
    <3>3. \A i, j \in 1..1 : i = j
      OBVIOUS
    <3> QED BY <3>1, <3>2, <3>3
  <2>2. CASE ~(request.root # "" /\ ~request.startup)
    <3>1. OrderFor = order
      BY <2>2 DEF OrderFor
    <3>2. \A i, j \in 1..L : OrderFor[i] = OrderFor[j] => i = j
      BY <1>1, <3>1 DEF Ordered
    <3>3. ToSet(order) \subseteq NamesOf(config)
      BY <1>1, <3>1 DEF ToSet
    <3>4. Closed(config, ToSet(order))
      <4> SUFFICES ASSUME NEW i \in DOMAIN order
                   PROVE  DepsOf(config, order[i]) \subseteq ToSet(order)
        BY DEF Closed, ToSet
      <4>1. DepsOf(config, order[i]) \subseteq {order[k] : k \in 1..i - 1}
        BY DEF Ordered
      <4>2. 1..i - 1 \subseteq DOMAIN order
        <5>1. DOMAIN order = 1..Len(order) /\ Len(order) \in Nat
          BY LenProperties DEF Typed
        <5> QED BY <5>1
      <4> QED BY <4>1, <4>2 DEF ToSet
    <3>5. ClosureOf(config, Targets) \subseteq ToSet(order)
      BY <3>4, ClosureLeast DEF Found
    <3>6. ToSet(order) = Wanted
      BY <2>2, <3>3, <3>5 DEF Found, Wanted, Targets
    <3> QED BY <3>1, <3>2, <3>6
  <2> QED BY <2>1, <2>2
<1>3. \A g \in 1..L : pos(g) \in 1..L /\ pos(pos(g)) = g
  <2>1. CASE request.startup
    BY <2>1
  <2>2. CASE ~request.startup
    <3> HIDE DEF L
    <3>1. \A g \in 1..L : L + 1 - g \in 1..L /\ L + 1 - (L + 1 - g) = g
      BY <1>1
    <3> QED BY <2>2, <3>1
  <2> QED BY <2>1, <2>2
<1> HIDE DEF L, pos
<1>4. Wanted \subseteq NamesOf(config)
  BY <1>1, <1>2 DEF ToSet
<1>5. ASSUME NEW n \in Wanted PROVE \E g \in 1..L : GroupOrder[g] = n
  <2>1. PICK i \in 1..L : OrderFor[i] = n
    BY <1>1, <1>2 DEF ToSet
  <2> QED BY <1>1, <1>3, <2>1
<1>6. \A g \in 1..L : GroupOrder[g] \in Wanted
  BY <1>1, <1>2, <1>3 DEF ToSet
<1>7. \A g, h \in 1..L : GroupOrder[g] = GroupOrder[h] => g = h
  <2> SUFFICES ASSUME NEW g \in 1..L, NEW h \in 1..L, GroupOrder[g] = GroupOrder[h]
               PROVE  g = h
    OBVIOUS
  <2>1. pos(g) = pos(h)
    BY <1>1, <1>2, <1>3
  <2> QED BY <1>3, <2>1
<1> QED BY <1>1, <1>2, <1>4, <1>5, <1>6, <1>7

\* A finished list has steps exactly when one of the groups has a host.
LEMMA StepsOfHosts ==
  ASSUME Typed, Ordered, Found, Listing, listed = Len(GroupOrder)
  PROVE  steps # <<>> <=> \E n \in Wanted : HostsAt(n) # <<>>
<1>1. steps \in Seq([group : Name, host : Member]) /\ Len(steps) \in Nat /\ DOMAIN steps = 1..Len(steps)
  BY LenProperties DEF Typed
<1>2. ASSUME NEW n \in Wanted, HostsAt(n) # <<>>
      PROVE  steps # <<>>
  <2>1. n \in NamesOf(config)
    BY WantedListed
  <2>2. PICK g \in 1..listed : GroupOrder[g] = n
    BY WantedListed
  <2>3. PICK d \in 0..Len(steps) : Block(steps, n, d)
    BY <2>2 DEF Listing
  <2>4. Len(HostsAt(n)) \in Nat \ {0}
    BY <1>2, <2>1, MembersTyped, EmptySeq
  <2>5. d + 1 \in d + 1..d + Len(HostsAt(n))
    BY <2>4
  <2>6. d + 1 \in DOMAIN steps
    BY <2>3, <2>5 DEF Block
  <2> QED BY <1>1, <2>6
<1>3. ASSUME steps # <<>>
      PROVE  \E n \in Wanted : HostsAt(n) # <<>>
  <2>1. 1 \in DOMAIN steps
    BY <1>1, <1>3, EmptySeq
  <2>2. PICK g \in 1..listed : steps[1].group = GroupOrder[g]
    BY <2>1 DEF Listing
  <2> DEFINE n == GroupOrder[g]
  <2>3. n \in Wanted
    BY WantedListed
  <2>4. PICK d \in 0..Len(steps) : Block(steps, n, d)
    BY DEF Listing
  <2>5. 1 \in d + 1..d + Len(HostsAt(n))
    BY <2>1, <2>2, <2>4 DEF Block
  <2>6. HostsAt(n) # <<>>
    <3> SUFFICES ASSUME HostsAt(n) = <<>> PROVE FALSE
      OBVIOUS
    <3>1. Len(HostsAt(n)) = 0
      BY EmptySeq
    <3> HIDE DEF n
    <3> QED BY <2>5, <3>1
  <2> QED BY <2>3, <2>6
<1> QED BY <1>2, <1>3

\* One more group.
LEMMA ListGroupStep ==
  ASSUME PlanInv, ListGroup
  PROVE  Listing'
<1> DEFINE n == GroupOrder[listed + 1]
           S == Len(steps)
           H == Len(HostsAt(n))
<1>1. Typed /\ Ordered /\ Found /\ Listing
  BY DEF PlanInv, SearchInv, ListInv, ListGroup
<1>2. /\ UNCHANGED <<config, validation, request, result, searchVars>>
      /\ listed' = listed + 1 /\ listed < Len(GroupOrder) /\ steps' = steps \o NewSteps(n)
  BY DEF ListGroup, NewSteps
<1>3. /\ listed \in Nat /\ listed + 1 \in 1..Len(GroupOrder) /\ Len(GroupOrder) \in Nat
      /\ 1..listed \subseteq 1..Len(GroupOrder)
  <2>1. listed \in Nat /\ Len(GroupOrder) \in Nat
    BY <1>1, GroupOrderTyped, LenProperties DEF Typed
  <2> QED BY <1>2, <2>1
<1>4. UNCHANGED <<GroupOrder, Found>> /\ \A m : UNCHANGED HostsAt(m)
  BY <1>2 DEF GroupOrder, OrderFor, Found, RootKnown, Targets, HostsAt, searchVars
<1>5. n \in Wanted /\ n \in NamesOf(config) /\ \A g \in 1..listed : GroupOrder[g] # n
  <2>1. \A g \in 1..listed : g # listed + 1
    BY <1>3
  <2> QED BY <1>1, <1>3, <2>1, WantedListed
<1>6. /\ steps \in Seq([group : Name, host : Member]) /\ S \in Nat /\ H \in Nat
      /\ NewSteps(n) \in Seq([group : Name, host : Member]) /\ Len(NewSteps(n)) = H
      /\ \A k \in 1..H : NewSteps(n)[k] = [group |-> n, host |-> Members(n)[k]]
      /\ DOMAIN steps = 1..S
  BY <1>1, <1>5, NewStepsTyped, MembersTyped, LenProperties DEF Typed
<1> HIDE DEF n, S, H
<1>7. /\ Len(steps') = S + H
      /\ \A i \in 1..S + H : steps'[i] = IF i <= S THEN steps[i] ELSE NewSteps(n)[i - S]
      /\ steps' \in Seq([group : Name, host : Member])
  BY <1>2, <1>6, ConcatProperties DEF S
<1>8. /\ DOMAIN steps' = 1..S + H /\ \A i \in 1..S + H : i \in 1..S \/ i - S \in 1..H
      /\ \A i \in 1..S + H : i <= S <=> i \in 1..S
      /\ \A i \in 1..S + H : i - S \in 1..H <=> i \notin 1..S
      /\ 1..S \subseteq 1..S + H
      /\ \A k \in 1..H : S + k \in 1..S + H /\ (S + k) - S = k /\ S + k \notin 1..S
  <2>1. DOMAIN steps' = 1..S + H
    BY <1>6, <1>7, LenProperties
  <2> QED BY <1>6, <2>1
<1>9. /\ \A i \in 1..S : steps'[i] = steps[i]
      /\ \A k \in 1..H : steps'[S + k] = [group |-> n, host |-> Members(n)[k]]
      /\ \A i \in 1..S + H : i \notin 1..S => steps'[i].group = n
  <2>1. \A i \in 1..S : steps'[i] = steps[i]
    BY <1>7, <1>8
  <2>2. \A k \in 1..H : steps'[S + k] = [group |-> n, host |-> Members(n)[k]]
    BY <1>6, <1>7, <1>8
  <2>3. \A i \in 1..S + H : i \notin 1..S => steps'[i] = NewSteps(n)[i - S] /\ i - S \in 1..H
    BY <1>7, <1>8
  <2> QED BY <1>6, <2>1, <2>2, <2>3
<1>10. \A i \in 1..S : steps[i].group # n
  BY <1>1, <1>5, <1>6 DEF Listing
<1>11. 1..listed + 1 = 1..listed \cup {listed + 1} /\ listed + 1 \notin 1..listed
       /\ listed' <= Len(GroupOrder')
  BY <1>2, <1>3, <1>4
<1>12. \A i \in DOMAIN steps' : \E g \in 1..listed' : steps'[i].group = GroupOrder'[g]
  <2> SUFFICES ASSUME NEW i \in 1..S + H
               PROVE  \E g \in 1..listed + 1 : steps'[i].group = GroupOrder[g]
    BY <1>2, <1>4, <1>8
  <2>1. CASE i \in 1..S
    <3>1. \E g \in 1..listed : steps[i].group = GroupOrder[g]
      BY <1>1, <1>6, <2>1 DEF Listing
    <3> QED BY <1>9, <1>11, <2>1, <3>1
  <2>2. CASE i \notin 1..S
    BY <1>9, <1>11, <2>2 DEF n
  <2> QED BY <2>1, <2>2
<1>13. \A i, j \in 1..S + H, g, h \in 1..listed + 1 :
         i <= j /\ steps'[i].group = GroupOrder[g] /\ steps'[j].group = GroupOrder[h] => g <= h
  <2> SUFFICES ASSUME NEW i \in 1..S + H, NEW j \in 1..S + H, NEW g \in 1..listed + 1, NEW h \in 1..listed + 1,
                      i <= j, steps'[i].group = GroupOrder[g], steps'[j].group = GroupOrder[h]
               PROVE  g <= h
    OBVIOUS
  <2>1. CASE h = listed + 1
    BY <1>3, <2>1
  <2>2. CASE h \in 1..listed
    <3>1. GroupOrder[h] # n
      BY <1>5, <2>2
    <3>2. j \in 1..S
      BY <1>9, <3>1
    <3>3. i \in 1..S
      BY <1>6, <3>2
    <3>4. steps[i].group = GroupOrder[g] /\ steps[j].group = GroupOrder[h]
      BY <1>9, <3>2, <3>3
    <3>5. g # listed + 1
      BY <1>10, <3>3, <3>4 DEF n
    <3>6. g \in 1..listed
      BY <1>11, <3>5
    <3> QED BY <1>1, <1>6, <2>2, <3>2, <3>3, <3>4, <3>6 DEF Listing
  <2> QED BY <1>11, <2>1, <2>2
<1>14. ASSUME NEW g \in 1..listed + 1
       PROVE  \E d \in 0..S + H : Block(steps', GroupOrder[g], d)
  <2>1. CASE g \in 1..listed
    <3> DEFINE m == GroupOrder[g]
    <3>1. PICK d \in 0..S : Block(steps, m, d)
      BY <1>1, <2>1 DEF Listing, S
    <3>2. m # n /\ m \in NamesOf(config)
      BY <1>1, <1>3, <1>5, <2>1, WantedListed
    <3> HIDE DEF m
    <3>3. {i \in DOMAIN steps' : steps'[i].group = m} = {i \in DOMAIN steps : steps[i].group = m}
      BY <1>6, <1>8, <1>9, <3>2
    <3>4. \A k \in 1..Len(HostsAt(m)) : steps'[d + k] = steps[d + k]
      <4> SUFFICES ASSUME NEW k \in 1..Len(HostsAt(m)) PROVE steps'[d + k] = steps[d + k]
        OBVIOUS
      <4>1. Len(HostsAt(m)) \in Nat
        BY <1>1, <3>2, MembersTyped, LenProperties
      <4>2. d + k \in d + 1..d + Len(HostsAt(m))
        BY <4>1
      <4>3. d + k \in 1..S
        BY <1>6, <3>1, <4>2 DEF Block
      <4> QED BY <1>9, <4>3
    <3>5. Block(steps', m, d)
      BY <3>1, <3>3, <3>4 DEF Block
    <3>6. d \in 0..S + H
      BY <1>6
    <3> QED BY <3>5, <3>6 DEF m
  <2>2. CASE g = listed + 1
    <3>1. GroupOrder[g] = n
      BY <2>2 DEF n
    <3>2. {i \in DOMAIN steps' : steps'[i].group = n} = S + 1..S + H
      <4>1. \A i \in 1..S + H : steps'[i].group = n <=> i \notin 1..S
        BY <1>9, <1>10
      <4>2. \A i \in 1..S + H : i \notin 1..S <=> i \in S + 1..S + H
        BY <1>6
      <4>3. S + 1..S + H \subseteq 1..S + H
        BY <1>6
      <4> QED BY <1>8, <4>1, <4>2, <4>3
    <3>3. \A k \in 1..H : steps'[S + k].host =
                            HostsAt(n)[IF request.startup THEN k ELSE H + 1 - k]
      <4>1. ASSUME NEW k \in 1..H PROVE steps'[S + k].host = Members(n)[k]
        <5>1. steps'[S + k] = [group |-> n, host |-> Members(n)[k]]
          BY <1>9
        <5> QED BY <5>1
      <4> QED BY <1>1, <1>5, <4>1, MembersTyped DEF H
    <3>4. Block(steps', n, S)
      BY <3>2, <3>3 DEF Block, H
    <3>5. S \in 0..S + H
      BY <1>6
    <3> QED BY <3>1, <3>4, <3>5
  <2> QED BY <1>11, <2>1, <2>2
<1>15. validation' = "none"
  BY <1>1, <1>2 DEF Listing
<1>16. \A g \in 1..listed' : \E d \in 0..Len(steps') : Block(steps, GroupOrder[g], d)'
  <2>2. \A g \in 1..listed' : \E d \in 0..Len(steps') : Block(steps', GroupOrder[g], d)
    BY <1>2, <1>7, <1>14
  <2>3. \A g, d : Block(steps, GroupOrder[g], d)' <=> Block(steps', GroupOrder[g], d)
    BY <1>2, <1>4 DEF Block
  <2> QED BY <2>2, <2>3
<1>17. \A i, j \in DOMAIN steps', g, h \in 1..listed' :
         i <= j /\ steps'[i].group = GroupOrder'[g] /\ steps'[j].group = GroupOrder'[h] => g <= h
  <2>1. DOMAIN steps' = 1..S + H /\ 1..listed' = 1..listed + 1 /\ GroupOrder' = GroupOrder
    BY <1>2, <1>4, <1>8
  <2> QED BY <1>13, <2>1, Zenon
<1> QED BY <1>11, <1>12, <1>15, <1>16, <1>17 DEF Listing

\* Nothing is listed before begin.
LEMMA NothingListed ==
  ASSUME at' \in {"new", "visit", "ready"}, ~result'.ok, steps' = <<>>, listed' = 0
  PROVE  ListInv'
BY DEF ListInv

\* A request is refused for a reason.
LEMMA RefusedInv ==
  ASSUME NEW e, e # "none", result' = Refused(e), at' = "answered", request'.made,
         steps' = <<>>, ~Acceptable'
  PROVE  ListInv'
<1>1. ~result'.ok /\ result'.error # "none"
  BY RefusedIsNot
<1> QED BY <1>1 DEF ListInv

LEMMA AcceptableKept ==
  ASSUME UNCHANGED <<config, request>>
  PROVE  UNCHANGED Acceptable
BY DEF Acceptable, Wanted, HostsAt

LEMMA FoundKept ==
  ASSUME UNCHANGED <<config, request, searchVars>>
  PROVE  UNCHANGED <<Found, GroupOrder, OrderFor>>
BY DEF Found, RootKnown, Targets, GroupOrder, OrderFor, searchVars

LEMMA ListingKept ==
  ASSUME Listing, UNCHANGED <<config, validation, request, searchVars, steps, listed>>
  PROVE  Listing'
<1>1. UNCHANGED GroupOrder /\ \A n : UNCHANGED HostsAt(n)
  BY FoundKept DEF HostsAt
<1>3. \A g \in 1..listed : \E d \in 0..Len(steps) : Block(steps, GroupOrder[g], d)'
  <2>1. \A g, d : Block(steps, GroupOrder[g], d) => Block(steps, GroupOrder[g], d)'
    BY <1>1 DEF Block
  <2> QED BY <2>1 DEF Listing
<1>4. /\ validation' = "none" /\ listed' <= Len(GroupOrder')
      /\ \A i \in DOMAIN steps' : \E g \in 1..listed' : steps'[i].group = GroupOrder'[g]
  BY <1>1 DEF Listing
<1>5. \A i, j \in DOMAIN steps', g, h \in 1..listed' :
        i <= j /\ steps'[i].group = GroupOrder'[g] /\ steps'[j].group = GroupOrder'[h] => g <= h
  BY <1>1 DEF Listing
<1> QED BY <1>3, <1>4, <1>5 DEF Listing

LEMMA BeginStep ==
  ASSUME PlanInv, Begin
  PROVE  ListInv'
<1>1. Typed /\ SearchInv /\ ListInv /\ at = "begin"
  BY DEF PlanInv, Begin
<1>2. /\ UNCHANGED <<config, validation, request, steps, searchVars, listed>>
      /\ Found /\ request.made /\ steps = <<>> /\ listed = 0 /\ ~result.ok
  BY <1>1 DEF Begin, ListInv, Found
<1>3. Found' /\ UNCHANGED <<GroupOrder, Acceptable>>
  BY <1>2, FoundKept, AcceptableKept
<1>4. CASE validation # "none"
  <2>1. ~Acceptable
    BY <1>1, <1>2, <1>4 DEF SearchInv, ValidationIsExact, Constructed, Acceptable
  <2>2. result' = Refused(validation) /\ at' = "answered"
    BY <1>4 DEF Begin
  <2> QED BY <1>2, <1>3, <1>4, <2>1, <2>2, RefusedInv
<1>5. CASE validation = "none" /\ OrderFor = <<>>
  <2>1. ~Acceptable
    <3>1. ToSet(<<>>) = {}
      BY DEF ToSet
    <3>2. Wanted = {}
      BY <1>1, <1>2, <1>5, <3>1, WantedListed DEF SearchInv
    <3> QED BY <3>2 DEF Acceptable
  <2>2. result' = Refused("no groups") /\ at' = "answered"
    BY <1>5 DEF Begin
  <2> QED BY <1>2, <1>3, <2>1, <2>2, RefusedInv
<1>6. CASE validation = "none" /\ OrderFor # <<>>
  <2>1. at' = "list" /\ UNCHANGED result
    BY <1>6 DEF Begin
  <2>2. Len(GroupOrder) \in Nat
    BY <1>1, <1>2, GroupOrderTyped, LenProperties
  <2>3. 1..listed' = {} /\ DOMAIN steps' = {} /\ listed' <= Len(GroupOrder')
    BY <1>2, <1>3, <2>2
  <2>4. Listing'
    BY <1>2, <1>6, <2>3 DEF Listing
  <2> QED BY <1>2, <1>3, <2>1, <2>4 DEF ListInv
<1> QED BY <1>4, <1>5, <1>6

LEMMA ListedStep ==
  ASSUME PlanInv, Listed
  PROVE  ListInv'
<1>1. Typed /\ SearchInv /\ ListInv /\ at = "list"
  BY DEF PlanInv, Listed
<1>2. /\ UNCHANGED <<config, validation, request, steps, searchVars, listed>>
      /\ Found /\ Listing /\ request.made /\ listed = Len(GroupOrder)
      /\ at' = "answered" /\ result' = Answer
  BY <1>1 DEF Listed, ListInv, Found
<1>3. Found' /\ Listing' /\ UNCHANGED <<GroupOrder, Acceptable>>
  BY <1>2, FoundKept, ListingKept, AcceptableKept
<1>4. CASE steps = <<>>
  <2>1. ~Acceptable
    BY <1>1, <1>2, <1>4, StepsOfHosts DEF SearchInv, Acceptable
  <2>2. result' = Refused("no hosts")
    BY <1>2, <1>4 DEF Answer
  <2> QED BY <1>2, <1>3, <1>4, <2>1, <2>2, RefusedInv
<1>5. CASE steps # <<>>
  <2>1. result'.ok /\ result'.error = "none"
    BY <1>2, <1>5 DEF Answer
  <2> QED BY <1>2, <1>3, <1>5, <2>1 DEF ListInv
<1> QED BY <1>4, <1>5

LEMMA ListStep ==
  ASSUME PlanInv, [Next]_vars
  PROVE  ListInv'
<1>0. Typed /\ SearchInv /\ ListInv
  BY DEF PlanInv
<1>1. CASE Construct
  <2>1. /\ at = "new" /\ at' \in {"visit", "ready"} /\ UNCHANGED <<result, steps, listed>>
    BY <1>1 DEF Construct, Search
  <2>2. ~result.ok /\ steps = <<>> /\ listed = 0
    BY <1>0, <2>1 DEF ListInv
  <2> QED BY <2>1, <2>2, NothingListed
<1>2. ASSUME NEW root \in Askable, NEW startup \in BOOLEAN, Start(root, startup)
      PROVE  ListInv'
  <2>1. /\ at = "ready" /\ UNCHANGED <<config, steps, listed>>
        /\ request' = [root |-> root, startup |-> startup, made |-> TRUE]
    BY <1>2 DEF Start
  <2>2. ~result.ok /\ steps = <<>> /\ listed = 0
    BY <1>0, <2>1 DEF ListInv
  <2>3. CASE root # "" /\ root \notin NamesOf(config)
    <3>1. result' = Refused("unknown") /\ at' = "answered"
      BY <1>2, <2>3 DEF Start
    <3>2. ~Acceptable'
      BY <2>1, <2>3 DEF Acceptable
    <3> QED BY <2>1, <2>2, <3>1, <3>2, RefusedInv
  <2>4. CASE ~(root # "" /\ root \notin NamesOf(config))
    <3>1. at' = "visit" /\ UNCHANGED result
      BY <1>2, <2>4 DEF Start, Search
    <3> QED BY <2>1, <2>2, <3>1, NothingListed
  <2> QED BY <2>3, <2>4
<1>3. CASE (\E name \in Name : Visit(name)) \/ Finish
  <2>1. at = "visit" /\ at' = "visit" /\ UNCHANGED <<result, steps, listed>>
    BY <1>3 DEF Visit, Finish, SearchOnly
  <2>2. ~result.ok /\ steps = <<>> /\ listed = 0
    BY <1>0, <2>1 DEF ListInv
  <2> QED BY <2>1, <2>2, NothingListed
<1>4. CASE Searched
  <2>1. at = "visit" /\ UNCHANGED <<config, request, steps, searchVars, listed>>
    BY <1>4 DEF Searched
  <2>2. ~result.ok /\ steps = <<>> /\ listed = 0 /\ Searching
    BY <1>0, <2>1 DEF ListInv, SearchInv
  <2>3. CASE ~request.made
    <3>1. at' = "ready" /\ UNCHANGED result
      BY <1>4, <2>3 DEF Searched
    <3> QED BY <2>1, <2>2, <3>1, NothingListed
  <2>4. CASE request.made /\ error = "none"
    <3>1. at' = "begin" /\ UNCHANGED result
      BY <1>4, <2>4 DEF Searched
    <3>2. Len(stack) = 1 /\ Top.left = <<>>
      BY <1>4, <2>4 DEF Searched
    <3>3. Found
      BY <2>1, <2>2, <2>4, <3>2, SearchEnds DEF Found, Searching
    <3>4. Found'
      BY <2>1, <3>3, FoundKept
    <3> QED BY <2>1, <2>2, <3>1, <3>4 DEF ListInv
  <2>5. CASE request.made /\ error # "none"
    <3>1. at' = "answered" /\ result' = Refused(error)
      BY <1>4, <2>5 DEF Searched
    <3>2. ~Acceptable'
      BY <2>1, <2>2, <2>5 DEF Searching, Acceptable
    <3> QED BY <2>1, <2>2, <2>5, <3>1, <3>2, RefusedInv
  <2> QED BY <2>3, <2>4, <2>5
<1>5. CASE Begin
  BY <1>5, BeginStep
<1>6. CASE ListGroup
  <2>1. at = "list" /\ UNCHANGED <<config, request, searchVars, result, at>>
    BY <1>6 DEF ListGroup
  <2>2. Found /\ ~result.ok
    BY <1>0, <2>1 DEF ListInv
  <2>3. Found' /\ Listing'
    BY <1>6, <2>1, <2>2, FoundKept, ListGroupStep
  <2> QED BY <2>1, <2>2, <2>3 DEF ListInv
<1>7. CASE Listed
  BY <1>7, ListedStep
<1>8. CASE UNCHANGED vars
  <2>1. UNCHANGED <<config, validation, request, result, steps, at, searchVars, listed>>
    BY <1>8 DEF vars
  <2>2. UNCHANGED <<Found, GroupOrder, Acceptable>> /\ (Listing => Listing')
    BY <2>1, FoundKept, ListingKept, AcceptableKept
  <2> QED BY <1>0, <2>1, <2>2 DEF ListInv
<1> QED BY <1>1, <1>2, <1>3, <1>4, <1>5, <1>6, <1>7, <1>8 DEF Next, Askable

-----------------------------------------------------------------------------
(* Theorems.                                                               *)

LEMMA PlanInvInit == Init => PlanInv
<1> SUFFICES ASSUME Init PROVE PlanInv
  OBVIOUS
<1>1. /\ config \in Configs /\ request = NoRequest /\ result = Refused("none") /\ at = "new"
      /\ steps = <<>> /\ listed = 0 /\ stack = <<>> /\ order = <<>>
      /\ marks = [n \in NamesOf(config) |-> 0]
  BY DEF Init
<1>2. request \in [root : Askable, startup : BOOLEAN, made : BOOLEAN] /\ ~request.made
  BY <1>1 DEF NoRequest, Askable
<1>3. ~result.ok
  BY <1>1, RefusedIsNot
<1>4. /\ stack \in Seq(Frame) /\ order \in Seq(NamesOf(config))
      /\ steps \in Seq([group : Name, host : Member])
  BY <1>1, EmptySeq
<1>5. marks \in [NamesOf(config) -> 0..2] /\ \A n \in NamesOf(config) : marks[n] # 2
  <2>1. marks \in [NamesOf(config) -> 0..2]
    BY <1>1, Unmarked
  <2> QED BY <1>1, <2>1
<1>6. Typed
  <2>1. listed \in Nat /\ result.ok \in BOOLEAN
    BY <1>1, RefusedIsNot
  <2> QED BY <1>1, <1>2, <1>4, <1>5, <2>1 DEF Typed
<1>7. Ordered
  <2>1. DOMAIN order = {}
    BY <1>1
  <2> QED BY <1>5, <2>1 DEF Ordered
<1>8. SearchInv
  BY <1>1, <1>2, <1>7 DEF SearchInv, ValidationIsExact, Constructed
<1>9. ListInv
  BY <1>1, <1>3 DEF ListInv
<1> QED BY <1>6, <1>8, <1>9 DEF PlanInv

LEMMA PlanInvAlways == Spec => []PlanInv
<1>1. PlanInv /\ [Next]_vars => PlanInv'
  BY TypedStep, SearchStep, ListStep DEF PlanInv
<1> QED BY PlanInvInit, <1>1, PTL DEF Spec

(* The constructor accepts exactly the configurations whose names are      *)
(* unique and non-empty and whose dependencies exist and have no cycle,    *)
(* however long the paths are (power_sequence_engine.cpp 7-21, 23-53).     *)
THEOREM ValidationAlwaysExact == Spec => []ValidationIsExact
<1>1. PlanInv => ValidationIsExact
  BY DEF PlanInv, SearchInv
<1> QED BY <1>1, PlanInvAlways, PTL

(* A request is accepted exactly when the configuration is valid, the      *)
(* group is known and one of the groups it is about has a host; a refused  *)
(* one says why and leaves no steps (power_sequence_engine.cpp 55-122).    *)
THEOREM AlwaysAcceptedExactly == Spec => []AcceptedExactly
<1>1. ASSUME PlanInv, at = "answered" PROVE AcceptedExactly
  <2>1. Typed /\ SearchInv /\ ListInv /\ request.made
    BY <1>1 DEF PlanInv, ListInv
  <2>2. CASE result.ok
    <3>1. /\ Found /\ Listing /\ listed = Len(GroupOrder) /\ steps # <<>> /\ result.error = "none"
      BY <2>1, <2>2 DEF ListInv
    <3>2. \E n \in Wanted : HostsAt(n) # <<>>
      BY <2>1, <3>1, StepsOfHosts DEF SearchInv
    <3>3. WellFormed(config)
      BY <2>1, <3>1 DEF SearchInv, ValidationIsExact, Constructed, Listing
    <3>4. request.root \in NamesOf(config) \cup {""}
      BY <3>1 DEF Found, RootKnown
    <3> QED BY <2>2, <3>1, <3>2, <3>3, <3>4 DEF AcceptedExactly
  <2>3. CASE ~result.ok
    <3>1. steps = <<>> /\ result.error # "none" /\ ~Acceptable
      BY <1>1, <2>1, <2>3 DEF ListInv
    <3> QED BY <2>3, <3>1 DEF AcceptedExactly, Acceptable
  <2> QED BY <2>2, <2>3
<1>2. PlanInv => AcceptedExactly
  BY <1>1 DEF AcceptedExactly
<1> QED BY <1>2, PlanInvAlways, PTL

(* An accepted sequence has the members of each group it is about, in the  *)
(* order the direction asks for and with no other step between them, and   *)
(* nothing else (power_sequence_engine.cpp 96-108).                        *)
THEOREM StepsAlwaysTheMembers == Spec => []StepsAreTheMembers
<1>1. ASSUME PlanInv, result.ok PROVE StepsAreTheMembers
  <2>1. Typed /\ Ordered /\ Found /\ Listing /\ listed = Len(GroupOrder)
    BY <1>1 DEF PlanInv, SearchInv, ListInv
  <2>2. \A i \in DOMAIN steps : steps[i].group \in Wanted
    BY <2>1, WantedListed DEF Listing
  <2>3. ASSUME NEW n \in Wanted PROVE \E d \in 0..Len(steps) : Block(steps, n, d)
    BY <2>1, WantedListed DEF Listing
  <2> QED BY <2>2, <2>3 DEF StepsAreTheMembers, Block
<1>2. PlanInv => StepsAreTheMembers
  BY <1>1 DEF StepsAreTheMembers
<1> QED BY <1>2, PlanInvAlways, PTL

(* In a startup every host of a dependency, direct or not, comes before    *)
(* the hosts that need it, in a shutdown after them                        *)
(* (power_sequence_engine.cpp 23-53 and 97-98).                            *)
THEOREM AlwaysDependencyOrdered == Spec => []DependencyOrdered
<1>1. ASSUME PlanInv, result.ok, NEW i \in DOMAIN steps, NEW j \in DOMAIN steps,
             steps[i].group \in ClosureOf(config, DepsOf(config, steps[j].group))
      PROVE  IF request.startup THEN i < j ELSE j < i
  <2>1. Typed /\ Ordered /\ Found /\ Listing /\ listed = Len(GroupOrder)
    BY <1>1 DEF PlanInv, SearchInv, ListInv
  <2>2. PICK g, h \in 1..Len(GroupOrder) :
          steps[i].group = GroupOrder[g] /\ steps[j].group = GroupOrder[h]
    BY <2>1 DEF Listing
  <2> DEFINE a == GroupOrder[g]
             b == GroupOrder[h]
  <2>3. a \in ClosureOf(config, DepsOf(config, b))
    BY <1>1, <2>2
  <2>4. /\ (i <= j => g <= h) /\ (j <= i => h <= g)
    BY <2>1, <2>2 DEF Listing
  <2>5. i \in Int /\ j \in Int /\ g \in Int /\ h \in Int
    <3>1. DOMAIN steps = 1..Len(steps)
      BY <2>1, LenProperties DEF Typed
    <3> QED BY <3>1
  <2>6. IF request.startup THEN g < h ELSE h < g
    <3>1. WellFormed(config) /\ b \in NamesOf(config)
      <4>1. request.made /\ validation = "none"
        BY <2>1 DEF Found, Listing
      <4>2. WellFormed(config)
        BY <1>1, <4>1 DEF PlanInv, SearchInv, ValidationIsExact, Constructed
      <4> QED BY <2>1, <4>2, WantedListed
    <3>2. a # b
      BY <2>3, <3>1 DEF WellFormed
    <3>3. CASE request.root # "" /\ ~request.startup
      <4>1. Wanted = {request.root} /\ a \in Wanted /\ b \in Wanted
        BY <2>1, <3>3, WantedListed DEF Wanted
      <4> QED BY <3>2, <4>1
    <3>4. CASE ~(request.root # "" /\ ~request.startup)
      <4>1. OrderFor = order
        BY <3>4 DEF OrderFor
      <4> DEFINE L == Len(order)
                 pos(k) == IF request.startup THEN k ELSE L + 1 - k
      <4>2. /\ L \in Nat /\ DOMAIN order = 1..L /\ Len(GroupOrder) = L
            /\ a = order[pos(g)] /\ b = order[pos(h)]
        BY <2>1, <4>1, GroupOrderTyped, LenProperties DEF Typed
      <4>3. pos(g) \in 1..L /\ pos(h) \in 1..L
        <5>1. g \in 1..L /\ h \in 1..L /\ L \in Nat
          BY <4>2
        <5> HIDE DEF L
        <5>2. L + 1 - g \in 1..L /\ L + 1 - h \in 1..L
          BY <5>1
        <5> QED BY <5>1, <5>2
      <4>4. a \in {order[k] : k \in 1..pos(h) - 1}
        <5> HIDE DEF pos
        <5> QED BY <2>1, <2>3, <4>2, <4>3, NeededBefore
      <4>5. pos(g) < pos(h)
        <5> HIDE DEF pos, L
        <5>1. PICK k \in 1..pos(h) - 1 : a = order[k]
          BY <4>4
        <5>2. k \in 1..L /\ k < pos(h)
          BY <4>2, <4>3
        <5>3. pos(g) = k
          <6>1. order[pos(g)] = order[k]
            BY <4>2, <5>1
          <6>2. pos(g) \in DOMAIN order /\ k \in DOMAIN order
            BY <4>2, <4>3, <5>2
          <6> QED BY <2>1, <6>1, <6>2 DEF Ordered
        <5> QED BY <5>2, <5>3
      <4> HIDE DEF L
      <4>6. CASE request.startup
        BY <4>5, <4>6
      <4>7. CASE ~request.startup
        <5>1. L + 1 - g < L + 1 - h
          BY <4>5, <4>7
        <5>2. h < g
          BY <2>5, <4>2, <5>1
        <5> QED BY <4>7, <5>2
      <4> QED BY <4>6, <4>7
    <3> QED BY <3>3, <3>4
  <2> HIDE DEF a, b
  <2>7. CASE request.startup
    BY <2>4, <2>5, <2>6, <2>7
  <2>8. CASE ~request.startup
    BY <2>4, <2>5, <2>6, <2>8
  <2> QED BY <2>7, <2>8
<1>2. PlanInv => DependencyOrdered
  BY <1>1 DEF DependencyOrdered
<1> QED BY <1>2, PlanInvAlways, PTL
=============================================================================
