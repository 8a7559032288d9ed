---------------------------- MODULE LoyaltyProofs ----------------------------
(***************************************************************************)
(* Theorems about Loyalty, for every number of customers, reservations,    *)
(* managers and overlapping sweeps, every program and reward, and every    *)
(* number of tries and deaths of workers.                                  *)
(*                                                                         *)
(* The inductive invariant is about one book at a time (GoodBook).  What   *)
(* makes it inductive is that a sweep never holds less than nothing        *)
(* (SweepsHold), for it writes what it holds and not what the row says.    *)
(* The lifetime counters need a second invariant (Counters), which says    *)
(* that the numbers of redemptions are used once and that one line changes *)
(* the two sums of a book as much as it changes lifetime_earned.           *)
(***************************************************************************)
EXTENDS Loyalty, SumsProofs, NaturalsInduction, TLAPS

\* What the line before line i of book b says.
BeforeIn(b, i) == IF i = 1 THEN 0 ELSE b.lines[i - 1].after

GoodBook(b) ==
    /\ b \in Book
    /\ b.balance >= 0
    /\ b.balance = BeforeIn(b, Len(b.lines) + 1)
    /\ \A i \in 1..Len(b.lines) :
          /\ b.lines[i].after >= 0
          /\ b.lines[i].type # "expired" => b.lines[i].after = BeforeIn(b, i) + b.lines[i].points

GoodBooks(bk) == /\ bk \in [Accounts -> Book]
                 /\ \A a \in Accounts : GoodBook(bk[a])

SweepsHold == \A s \in Sweeps : sweep[s].held >= 0

\* Only a customer who was referred has a referral.
ReferralsKnown == \A c \in Customers : referral[c] # "none" => Referrer[c] # Nobody

\* The job of a visit comes after it, and a job that can still run has a try left.
JobsInOrder ==
    \A r \in Reservations :
        /\ visit[r] = "open" => job[r].at = "none"
        /\ job[r].at # "failed" => job[r].left # 0
        /\ refund[r].at # "failed" => refund[r].left # 0

LoyaltyInv ==
    LoyaltyTypeOK /\ GoodBooks(books) /\ SweepsHold /\ ReferralsKnown /\ JobsInOrder

------------------------------------------------------------------------------
LEMMA AccountsExist ==
    ASSUME NEW c \in Customers
    PROVE  BusinessAccount(c) \in Accounts /\ PlatformAccount(c) \in Accounts
  BY DEF BusinessAccount, PlatformAccount, Accounts

LEMMA PointsAreNatural ==
    ASSUME NEW n \in Nat
    PROVE  Points(n) \in Nat
  <1> DEFINE e == Program.earnAmount
             k == n \div e
  <1>1. e \in Nat \ {0} /\ Program.earnRate \in Nat /\ Program.flat \in Nat
        /\ Program.minimum \in Nat /\ Program.maximum \in Nat
    BY AmountsAssumption
  <1>2. k \in Nat
    BY <1>1
  <1>3. k * Program.earnRate \in Nat
    <2> HIDE DEF k
    <2> QED BY <1>1, <1>2
  <1>4. k * Program.earnRate + Program.flat \in Nat
    <2> HIDE DEF k
    <2> QED BY <1>1, <1>3
  <1> QED
    BY <1>1, <1>4 DEF Points, AtMost

LEMMA ReversalsAreIntegers ==
    ASSUME NEW earned \in Nat, NEW amount \in Nat, NEW back \in Nat,
           NEW p \in Reversals(earned, amount, back)
    PROVE  p \in Int
  <1>1. CASE amount = 0
    BY <1>1 DEF Reversals
  <1>2. CASE amount # 0
    <2>1. earned * back \in Int
      OBVIOUS
    <2>2. (earned * back) \div amount \in Int
      BY <1>2, <2>1
    <2> QED
      BY <1>2, <2>2 DEF Reversals
  <1> QED
    BY <1>1, <1>2

\* A line on top of a base that is the balance, or of any base for an expiry,
\* keeps every book good as long as the result is not negative.
LEMMA WrittenKeepsBooks ==
    ASSUME NEW bk, GoodBooks(bk), NEW a \in Accounts, NEW type \in LineTypes,
           NEW source \in Sources, NEW points \in Int, NEW base \in Int,
           base + points >= 0,
           type = "redeemed" => points <= 0,
           type # "expired" => base = bk[a].balance
    PROVE  GoodBooks(Written(bk, a, type, source, points, base))
  <1> DEFINE line == [type |-> type, source |-> source, points |-> points,
                      after |-> base + points]
             old == bk[a]
             new == [lines |-> Append(old.lines, line),
                     balance |-> base + points,
                     earned |-> IF points > 0 THEN old.earned + points ELSE old.earned,
                     redeemed |-> IF type = "redeemed" THEN old.redeemed - points
                                  ELSE old.redeemed]
  <1>1. GoodBook(old) /\ old \in Book
    BY DEF GoodBooks
  <1>2. old.lines \in Seq(Line) /\ old.balance \in Int /\ old.earned \in Nat
        /\ old.redeemed \in Nat
    BY <1>1 DEF Book
  <1>3. line \in Line
    BY DEF Line
  <1>4. /\ new.lines \in Seq(Line)
        /\ Len(new.lines) = Len(old.lines) + 1
        /\ Len(old.lines) \in Nat
        /\ new.lines[Len(new.lines)] = line
        /\ \A i \in 1..Len(old.lines) : new.lines[i] = old.lines[i]
    <2> HIDE DEF line
    <2> QED BY <1>2, <1>3
  <1>5. new \in Book
    <2>1. /\ (IF points > 0 THEN old.earned + points ELSE old.earned) \in Nat
          /\ (IF type = "redeemed" THEN old.redeemed - points ELSE old.redeemed) \in Nat
          /\ base + points \in Int
      <3> HIDE DEF old
      <3> QED BY <1>2
    <2> QED
      BY <1>4, <2>1 DEF Book
  <1>6. GoodBook(new)
    <2>1. new.balance = BeforeIn(new, Len(new.lines) + 1)
      BY <1>4 DEF BeforeIn
    <2>2. ASSUME NEW i \in 1..Len(old.lines)
          PROVE  /\ new.lines[i].after >= 0
                 /\ new.lines[i].type # "expired"
                       => new.lines[i].after = BeforeIn(new, i) + new.lines[i].points
      <3>1. BeforeIn(new, i) = BeforeIn(old, i)
        BY <1>4 DEF BeforeIn
      <3> QED
        BY <1>1, <1>4, <3>1 DEF GoodBook
    <2>3. /\ line.after >= 0
          /\ line.type # "expired" => line.after = BeforeIn(new, Len(new.lines)) + line.points
      <3>1. BeforeIn(new, Len(new.lines)) = BeforeIn(old, Len(old.lines) + 1)
        BY <1>4 DEF BeforeIn
      <3> QED
        BY <1>1, <3>1 DEF GoodBook
    <2> HIDE DEF new, line
    <2>4. \A i \in 1..Len(new.lines) : i \in 1..Len(old.lines) \/ i = Len(new.lines)
      BY <1>4
    <2>5. new.balance >= 0
      BY DEF new
    <2> QED
      BY <1>4, <1>5, <2>1, <2>2, <2>3, <2>4, <2>5 DEF GoodBook
  <1>7. Written(bk, a, type, source, points, base) = [bk EXCEPT ![a] = new]
    BY DEF Written
  <1> HIDE DEF new
  <1> QED
    BY <1>5, <1>6, <1>7 DEF GoodBooks

\* So does a credit, and a debit that the balance covers.
LEMMA PostedKeepsBooks ==
    ASSUME NEW bk, GoodBooks(bk), NEW a \in Accounts, NEW type \in LineTypes,
           NEW source \in Sources, NEW points \in Int,
           bk[a].balance + points >= 0,
           type = "redeemed" => points <= 0
    PROVE  GoodBooks(Posted(bk, a, type, source, points))
  <1>1. bk[a].balance \in Int
    BY DEF GoodBooks, Book
  <1>2. GoodBooks(Written(bk, a, type, source, points, bk[a].balance))
    BY <1>1, WrittenKeepsBooks
  <1> QED
    BY <1>2 DEF Posted

LEMMA BalancesNotNegative ==
    ASSUME NEW bk, GoodBooks(bk), NEW a \in Accounts
    PROVE  bk[a].balance \in Nat
  BY DEF GoodBooks, GoodBook, Book

------------------------------------------------------------------------------
(* The initial states *)

LEMMA LoyaltyInitHolds == LoyaltyInit => LoyaltyInv
<1> SUFFICES ASSUME LoyaltyInit PROVE LoyaltyInv
  OBVIOUS
<1>1. EmptyBook \in Book /\ GoodBook(EmptyBook)
  BY DEF EmptyBook, Book, GoodBook, BeforeIn
<1>2. GoodBooks(books)
  BY <1>1 DEF LoyaltyInit, GoodBooks
<1>3. LoyaltyTypeOK
  <2>1. job \in [Reservations -> JobState]
    BY TriesAssumption DEF LoyaltyInit, JobState
  <2>2. refund \in [Reservations -> [at : {"none", "reverse", "ack", "done", "failed"},
                                    left : 0..Tries]]
    BY TriesAssumption DEF LoyaltyInit
  <2>3. deaths \in 0..MaxDeaths /\ stock \in 0..Stock /\ redeemed \in [Customers -> 0..PerUser]
    BY TriesAssumption, RewardAssumption DEF LoyaltyInit
  <2>4. granted \in [Customers -> Nat] /\ \A c \in Customers : granted[c] <= MaxGranted[c]
    BY AmountsAssumption DEF LoyaltyInit
  <2>5. sweep \in [Sweeps -> [due : SUBSET Reservations, on : Customers \cup {Nobody},
                             held : Int]]
    BY DEF LoyaltyInit, IdleSweep
  <2> QED
    BY <1>2, <2>1, <2>2, <2>3, <2>4, <2>5 DEF LoyaltyInit, LoyaltyTypeOK, GoodBooks
<1>4. SweepsHold
  BY DEF LoyaltyInit, SweepsHold, IdleSweep
<1>5. ReferralsKnown
  BY DEF LoyaltyInit, ReferralsKnown
<1>6. JobsInOrder
  BY TriesAssumption DEF LoyaltyInit, JobsInOrder
<1> QED
  BY <1>2, <1>3, <1>4, <1>5, <1>6 DEF LoyaltyInv

------------------------------------------------------------------------------
(* The books *)

LEMMA RedeemKeepsBooks ==
    ASSUME LoyaltyInv, NEW c \in Customers, Redeem(c)
    PROVE  GoodBooks(books)'
<1> DEFINE a == BusinessAccount(c)
           id == Stock - stock
           spent == Posted(books, a, "redeemed", id, -Cost)
<1>1. a \in Accounts
  BY AccountsExist
<1>2. id \in Sources
  BY RewardAssumption DEF LoyaltyInv, LoyaltyTypeOK, Sources
<1>3. books[a].balance \in Nat /\ books[a].balance >= Cost /\ Cost \in Nat /\ Bonus \in Nat
  BY <1>1, BalancesNotNegative, RewardAssumption DEF LoyaltyInv, Redeem
<1>4. GoodBooks(spent)
  <2> HIDE DEF a, id
  <2>1. -Cost \in Int /\ books[a].balance + (-Cost) >= 0 /\ -Cost <= 0
    BY <1>3
  <2>2. "redeemed" \in LineTypes
    BY DEF LineTypes
  <2> QED
    BY <1>1, <1>2, <2>1, <2>2, PostedKeepsBooks DEF LoyaltyInv
<1>5. GoodBooks(Posted(spent, a, "bonus", id, Bonus))
  <2> HIDE DEF a, id, spent
  <2>1. spent[a].balance + Bonus >= 0
    BY <1>1, <1>3, <1>4, BalancesNotNegative
  <2>2. "bonus" \in LineTypes /\ Bonus \in Int
    BY <1>3 DEF LineTypes
  <2> QED
    BY <1>1, <1>2, <1>4, <2>1, <2>2, PostedKeepsBooks
<1>6. books' = spent \/ books' = Posted(spent, a, "bonus", id, Bonus)
  BY DEF Redeem
<1> QED
  BY <1>4, <1>5, <1>6

LEMMA AwardKeepsBooks ==
    ASSUME LoyaltyInv, NEW r \in Reservations, Award(r)
    PROVE  GoodBooks(books)'
<1> DEFINE c == Guest[r]
           first == Posted(books, PlatformAccount(Referrer[c]), "referral", c, ReferrerPoints)
<1>1. CASE referral[c] # "qualified"
  BY <1>1 DEF Award, LoyaltyInv
<1>2. CASE referral[c] = "qualified"
  <2>1. c \in Customers /\ Referrer[c] \in Customers
    BY <1>2, PeopleAssumption DEF LoyaltyInv, ReferralsKnown
  <2>2. PlatformAccount(Referrer[c]) \in Accounts /\ PlatformAccount(c) \in Accounts
    BY <2>1, AccountsExist
  <2>3. c \in Sources /\ "referral" \in LineTypes
    BY <2>1 DEF Sources, LineTypes
  <2>4. ReferrerPoints \in Nat /\ ReferredPoints \in Nat
    BY AmountsAssumption
  <2> HIDE DEF c
  <2>5. GoodBooks(first)
    <3>1. books[PlatformAccount(Referrer[c])].balance + ReferrerPoints >= 0
      BY <2>2, <2>4, BalancesNotNegative DEF LoyaltyInv
    <3> QED
      BY <2>2, <2>3, <2>4, <3>1, PostedKeepsBooks DEF LoyaltyInv
  <2> HIDE DEF first
  <2>6. GoodBooks(Posted(first, PlatformAccount(c), "referral", c, ReferredPoints))
    <3>1. first[PlatformAccount(c)].balance + ReferredPoints >= 0
      BY <2>2, <2>4, <2>5, BalancesNotNegative
    <3> QED
      BY <2>2, <2>3, <2>4, <2>5, <3>1, PostedKeepsBooks
  <2>7. books' = Posted(first, PlatformAccount(c), "referral", c, ReferredPoints)
    BY <1>2 DEF Award, first, c
  <2> QED
    BY <2>6, <2>7
<1> QED
  BY <1>1, <1>2

LEMMA EarnKeepsBooks ==
    ASSUME LoyaltyInv, NEW r \in Reservations, Earn(r)
    PROVE  GoodBooks(books)'
<1> DEFINE a == BusinessAccount(Guest[r])
           n == Points(Amount[r])
<1>1. a \in Accounts /\ n \in Nat /\ r \in Sources /\ "earned" \in LineTypes
  BY AccountsExist, PointsAreNatural, PeopleAssumption, AmountsAssumption
     DEF Sources, LineTypes
<1>2. books' = books \/ books' = Posted(books, a, "earned", r, n)
  BY DEF Earn
<1> HIDE DEF a, n
<1>3. books[a].balance + n >= 0
  BY <1>1, BalancesNotNegative DEF LoyaltyInv
<1> QED
  BY <1>1, <1>2, <1>3, PostedKeepsBooks DEF LoyaltyInv

\* A reversal that writes takes something and at most the balance.
LEMMA ReversePosts ==
    ASSUME NEW r \in Reservations, Reverse(r), books' # books
    PROVE  \E points \in Reversals(Points(Amount[r]), Amount[r], Paid[r]) :
              /\ points > 0 /\ points <= books[BusinessAccount(Guest[r])].balance
              /\ books' = Posted(books, BusinessAccount(Guest[r]), "reversed", r, -points)
BY DEF Reverse

LEMMA ReverseKeepsBooks ==
    ASSUME LoyaltyInv, NEW r \in Reservations, Reverse(r)
    PROVE  GoodBooks(books)'
<1> DEFINE a == BusinessAccount(Guest[r])
<1>1. a \in Accounts /\ r \in Sources /\ "reversed" \in LineTypes
  BY AccountsExist, PeopleAssumption DEF Sources, LineTypes
<1>2. CASE books' = books
  BY <1>2 DEF LoyaltyInv
<1>3. CASE books' # books
  <2>1. PICK points \in Reversals(Points(Amount[r]), Amount[r], Paid[r]) :
           /\ points <= books[a].balance
           /\ books' = Posted(books, a, "reversed", r, -points)
    BY <1>3, ReversePosts
  <2>2. points \in Int
    BY PointsAreNatural, ReversalsAreIntegers, AmountsAssumption
  <2> HIDE DEF a
  <2>3. books[a].balance + (-points) >= 0 /\ -points \in Int
    BY <1>1, <2>1, <2>2, BalancesNotNegative DEF LoyaltyInv
  <2> QED
    BY <1>1, <2>1, <2>3, PostedKeepsBooks DEF LoyaltyInv
<1> QED
  BY <1>2, <1>3

LEMMA AdjustKeepsBooks ==
    ASSUME LoyaltyInv, NEW m \in Managers, NEW c \in Customers, NEW points \in Adjustments,
           Adjust(m, c, points)
    PROVE  GoodBooks(books)'
<1> DEFINE a == BusinessAccount(c)
<1>1. a \in Accounts /\ m \in Sources /\ "adjusted" \in LineTypes /\ points \in Int
  BY AccountsExist, AmountsAssumption DEF Sources, LineTypes
<1>2. /\ books' = Posted(books, a, "adjusted", m, points)
      /\ points < 0 => books[a].balance >= -points
  BY DEF Adjust
<1> HIDE DEF a
<1>3. books[a].balance + points >= 0
  BY <1>1, <1>2, BalancesNotNegative DEF LoyaltyInv
<1> QED
  BY <1>1, <1>2, <1>3, PostedKeepsBooks DEF LoyaltyInv

\* The sweep writes on the balance it holds: it takes at most that.
LEMMA SweepLineKeepsBooks ==
    ASSUME LoyaltyInv, NEW s \in Sweeps, NEW r \in Reservations, SweepLine(s, r)
    PROVE  GoodBooks(books)' /\ SweepsHold'
<1> DEFINE a == BusinessAccount(Guest[r])
           held == sweep[s].held
           points == IF Listed(books, a, "expired", r) THEN 0
                     ELSE AtMost(Points(Amount[r]), held)
<1>1. a \in Accounts /\ r \in Sources /\ "expired" \in LineTypes
  BY AccountsExist, PeopleAssumption DEF Sources, LineTypes
<1>2. held \in Nat
  BY DEF LoyaltyInv, LoyaltyTypeOK, SweepsHold
<1>3. Points(Amount[r]) \in Nat
  BY PointsAreNatural, AmountsAssumption
<1>4. points \in Nat /\ points <= held
  <2> HIDE DEF held
  <2> QED BY <1>2, <1>3 DEF AtMost
<1>5. books' = books \/ books' = Written(books, a, "expired", r, -points, held)
  BY DEF SweepLine
<1>6. /\ \A t \in Sweeps \ {s} : sweep'[t] = sweep[t]
      /\ sweep'[s].held = 0 \/ sweep'[s].held = held - points
  <2>1. /\ sweep \in [Sweeps -> [due : SUBSET Reservations, on : Customers \cup {Nobody},
                                 held : Int]]
        /\ s \in DOMAIN sweep
    BY DEF LoyaltyInv, LoyaltyTypeOK
  <2>2. CASE sweep[s].due = {r}
    BY <2>1, <2>2 DEF SweepLine, IdleSweep
  <2>3. CASE sweep[s].due # {r}
    BY <2>1, <2>3 DEF SweepLine
  <2> QED
    BY <2>2, <2>3
<1> HIDE DEF a, held, points
<1>7. GoodBooks(books)'
  <2>1. held + (-points) >= 0 /\ -points \in Int /\ held \in Int
    BY <1>2, <1>4
  <2> QED
    BY <1>1, <1>5, <2>1, WrittenKeepsBooks DEF LoyaltyInv
<1>8. SweepsHold'
  <2>1. held - points >= 0
    BY <1>2, <1>4
  <2> QED
    BY <1>6, <2>1 DEF LoyaltyInv, SweepsHold
<1> QED
  BY <1>7, <1>8

LEMMA SweepAccountHolds ==
    ASSUME LoyaltyInv, NEW s \in Sweeps, SweepAccount(s)
    PROVE  /\ SweepsHold'
           /\ sweep' \in [Sweeps -> [due : SUBSET Reservations, on : Customers \cup {Nobody},
                                    held : Int]]
<1>1. PICK r \in sweep[s].due :
         sweep' = [sweep EXCEPT ![s] = [due |-> sweep[s].due, on |-> Guest[r],
                                        held |-> books[BusinessAccount(Guest[r])].balance]]
  BY DEF SweepAccount
<1>2. r \in Reservations /\ Guest[r] \in Customers
  BY PeopleAssumption DEF LoyaltyInv, LoyaltyTypeOK
<1>3. books[BusinessAccount(Guest[r])].balance \in Nat
  BY <1>2, AccountsExist, BalancesNotNegative DEF LoyaltyInv
<1>4. sweep \in [Sweeps -> [due : SUBSET Reservations, on : Customers \cup {Nobody},
                           held : Int]]
  BY DEF LoyaltyInv, LoyaltyTypeOK
<1> QED
  BY <1>1, <1>2, <1>3, <1>4 DEF LoyaltyInv, SweepsHold

\* Every step keeps the books good and what the sweeps hold natural.
LEMMA StepKeepsBooks ==
    ASSUME LoyaltyInv, [LoyaltyNext]_loyaltyVars
    PROVE  GoodBooks(books)' /\ SweepsHold'
<1>1. CASE UNCHANGED <<books, sweep>>
  BY <1>1 DEF LoyaltyInv, SweepsHold
<1>2. ASSUME NEW r \in Reservations, Listen(r)
      PROVE  GoodBooks(books)' /\ SweepsHold'
  <2>1. sweep' = sweep
    BY <1>2 DEF Listen, Earn, Look, Qualify, Award, Reverse, Acknowledge
  <2>2. SweepsHold'
    BY <2>1 DEF LoyaltyInv, SweepsHold
  <2>3. GoodBooks(books)'
    <3>1. CASE Earn(r)
      BY <3>1, EarnKeepsBooks
    <3>2. CASE Award(r)
      BY <3>2, AwardKeepsBooks
    <3>3. CASE Reverse(r)
      BY <3>3, ReverseKeepsBooks
    <3>4. CASE Look(r) \/ Qualify(r) \/ Acknowledge(r)
      BY <3>4 DEF LoyaltyInv, Look, Qualify, Acknowledge
    <3> QED
      BY <1>2, <3>1, <3>2, <3>3, <3>4 DEF Listen
  <2> QED
    BY <2>2, <2>3
<1>3. ASSUME NEW c \in Customers,
             Redeem(c) \/ \E m \in Managers, points \in Adjustments : Adjust(m, c, points)
      PROVE  GoodBooks(books)' /\ SweepsHold'
  <2>1. sweep' = sweep
    BY <1>3 DEF Redeem, Adjust
  <2>2. SweepsHold'
    BY <2>1 DEF LoyaltyInv, SweepsHold
  <2> QED
    BY <1>3, <2>2, RedeemKeepsBooks, AdjustKeepsBooks
<1>4. ASSUME NEW r \in Reservations,
             Complete(r) \/ Refund(r) \/ WorkerDies(r) \/ Lapse(r)
      PROVE  UNCHANGED <<books, sweep>>
  BY <1>4 DEF Complete, Refund, WorkerDies, Lapse
<1>5. ASSUME NEW s \in Sweeps, SweepList(s)
      PROVE  GoodBooks(books)' /\ SweepsHold'
  BY <1>5 DEF SweepList, LoyaltyInv, LoyaltyTypeOK, SweepsHold, IdleSweep
<1>6. ASSUME NEW s \in Sweeps, SweepAccount(s)
      PROVE  GoodBooks(books)' /\ SweepsHold'
  <2>1. books' = books
    BY <1>6 DEF SweepAccount
  <2> QED
    BY <1>6, <2>1, SweepAccountHolds DEF LoyaltyInv
<1>7. CASE UNCHANGED loyaltyVars
  BY <1>1, <1>7 DEF loyaltyVars
<1> QED
  BY <1>1, <1>2, <1>3, <1>4, <1>5, <1>6, <1>7, SweepLineKeepsBooks DEF LoyaltyNext

------------------------------------------------------------------------------
(* Types *)

LEMMA AwardMoves ==
    ASSUME NEW r \in Reservations, Award(r)
    PROVE  \/ referral' = referral
           \/ /\ referral[Guest[r]] = "qualified"
              /\ referral' = [referral EXCEPT ![Guest[r]] = "rewarded"]
BY DEF Award

LEMMA ListenTyped ==
    ASSUME LoyaltyInv, NEW r \in Reservations, Listen(r) \/ WorkerDies(r), GoodBooks(books)'
    PROVE  LoyaltyTypeOK' /\ JobsInOrder' /\ ReferralsKnown'
<1> DEFINE J == [at : {"none", "earn", "look", "qualify", "award", "ack", "done", "failed"},
                 left : 0..Tries]
           F == [at : {"none", "reverse", "ack", "done", "failed"}, left : 0..Tries]
<1>1. job \in [Reservations -> J] /\ refund \in [Reservations -> F]
  BY DEF LoyaltyInv, LoyaltyTypeOK, JobState
<1>2. books' \in [Accounts -> Book]
  BY DEF GoodBooks
<1>3. UNCHANGED <<visit, lapsed, stock, redeemed, granted, sweep>>
  BY DEF Listen, Earn, Look, Qualify, Award, Reverse, Acknowledge, WorkerDies, rewardVars
<1>4. deaths' \in 0..MaxDeaths
  BY TriesAssumption
     DEF LoyaltyInv, LoyaltyTypeOK, Listen, Earn, Look, Qualify, Award, Reverse, Acknowledge,
         WorkerDies
<1>5. /\ referral' \in [Customers -> {"none", "registered", "qualified", "rewarded"}]
      /\ ReferralsKnown'
  <2>1. CASE referral' = referral
    BY <2>1 DEF LoyaltyInv, LoyaltyTypeOK, ReferralsKnown
  <2>2. CASE referral' # referral
    <3>1. Qualify(r) \/ Award(r)
      BY <2>2 DEF Listen, Earn, Look, Reverse, Acknowledge, WorkerDies
    <3>2. /\ referral[Guest[r]] \in {"registered", "qualified"}
          /\ \E to \in {"qualified", "rewarded"} : referral' = [referral EXCEPT ![Guest[r]] = to]
      <4>1. CASE Qualify(r)
        BY <1>1, <2>2, <4>1 DEF Qualify
      <4>2. CASE Award(r)
        BY <2>2, <4>2, AwardMoves
      <4> QED BY <3>1, <4>1, <4>2
    <3> QED
      BY <3>2, PeopleAssumption DEF LoyaltyInv, LoyaltyTypeOK, ReferralsKnown
  <2> QED
    BY <2>1, <2>2
<1>6. /\ job' \in [Reservations -> J] /\ refund' \in [Reservations -> F]
      /\ JobsInOrder'
  <2>1. ASSUME NEW to \in {"look", "qualify", "award", "ack", "done"},
               job[r].at \notin {"none", "failed"},
               job' = [job EXCEPT ![r].at = to], refund' = refund
        PROVE  job' \in [Reservations -> J] /\ refund' \in [Reservations -> F] /\ JobsInOrder'
    BY <1>1, <1>3, <2>1 DEF LoyaltyInv, JobsInOrder
  <2>2. ASSUME NEW to \in {"ack", "done"}, refund[r].at # "failed",
               refund' = [refund EXCEPT ![r].at = to], job' = job
        PROVE  job' \in [Reservations -> J] /\ refund' \in [Reservations -> F] /\ JobsInOrder'
    BY <1>1, <1>3, <2>2 DEF LoyaltyInv, JobsInOrder
  <2>3. ASSUME job[r].at \notin {"none", "failed"}, job' = [job EXCEPT ![r] = Retried(@, "earn")],
               refund' = refund
        PROVE  job' \in [Reservations -> J] /\ refund' \in [Reservations -> F] /\ JobsInOrder'
    <3>1. job[r] \in J /\ job[r].left # 0 /\ Tries \in Nat
      BY <1>1, <2>3, TriesAssumption DEF LoyaltyInv, JobsInOrder
    <3>2. /\ Retried(job[r], "earn") \in J
          /\ Retried(job[r], "earn").at # "failed" => Retried(job[r], "earn").left # 0
      BY <3>1 DEF Retried
    <3> QED
      BY <1>1, <1>3, <2>3, <3>2 DEF LoyaltyInv, JobsInOrder
  <2>4. ASSUME refund[r].at # "failed", refund' = [refund EXCEPT ![r] = Retried(@, "reverse")],
               job' = job
        PROVE  job' \in [Reservations -> J] /\ refund' \in [Reservations -> F] /\ JobsInOrder'
    <3>1. refund[r] \in F /\ refund[r].left # 0 /\ Tries \in Nat
      BY <1>1, <2>4, TriesAssumption DEF LoyaltyInv, JobsInOrder
    <3>2. /\ Retried(refund[r], "reverse") \in F
          /\ Retried(refund[r], "reverse").at # "failed" => Retried(refund[r], "reverse").left # 0
      BY <3>1 DEF Retried
    <3> QED
      BY <1>1, <1>3, <2>4, <3>2 DEF LoyaltyInv, JobsInOrder
  <2>5. CASE Earn(r)
    BY <2>1, <2>5 DEF Earn
  <2>6. CASE Look(r)
    BY <2>1, <2>6 DEF Look
  <2>7. CASE Qualify(r)
    BY <2>1, <2>7 DEF Qualify
  <2>8. CASE Award(r)
    BY <2>1, <2>8 DEF Award
  <2>9. CASE Reverse(r)
    BY <2>2, <2>4, <2>9 DEF Reverse
  <2>10. CASE Acknowledge(r)
    BY <2>1, <2>2, <2>10 DEF Acknowledge
  <2>11. CASE WorkerDies(r)
    BY <2>3, <2>4, <2>11 DEF WorkerDies
  <2> QED
    BY <2>5, <2>6, <2>7, <2>8, <2>9, <2>10, <2>11 DEF Listen
<1> QED
  BY <1>1, <1>2, <1>3, <1>4, <1>5, <1>6 DEF LoyaltyInv, LoyaltyTypeOK, JobState

LEMMA RedeemTyped ==
    ASSUME LoyaltyInv, NEW c \in Customers, Redeem(c), GoodBooks(books)'
    PROVE  LoyaltyTypeOK' /\ JobsInOrder' /\ ReferralsKnown'
<1>1. /\ stock' \in 0..Stock /\ redeemed' \in [Customers -> 0..PerUser]
      /\ UNCHANGED <<jobVars, lapsed, granted, referral, sweep>>
  BY RewardAssumption DEF Redeem, LoyaltyInv, LoyaltyTypeOK
<1>2. UNCHANGED <<visit, job, refund, deaths>>
  BY <1>1 DEF jobVars
<1>3. books' \in [Accounts -> Book]
  BY DEF GoodBooks
<1> QED
  BY <1>1, <1>2, <1>3
     DEF LoyaltyInv, LoyaltyTypeOK, JobState, JobsInOrder, ReferralsKnown

LEMMA AdjustTyped ==
    ASSUME LoyaltyInv, NEW m \in Managers, NEW c \in Customers, NEW points \in Adjustments,
           Adjust(m, c, points), GoodBooks(books)'
    PROVE  LoyaltyTypeOK' /\ JobsInOrder' /\ ReferralsKnown'
<1>1. /\ granted' \in [Customers -> Nat] /\ \A d \in Customers : granted'[d] <= MaxGranted[d]
      /\ UNCHANGED <<lapsed, stock, redeemed, referral, sweep>>
  <2>1. /\ granted[c] < MaxGranted[c] /\ granted' = [granted EXCEPT ![c] = granted[c] + 1]
        /\ UNCHANGED <<lapsed, stock, redeemed, referral, sweep>>
    BY DEF Adjust
  <2>2. /\ granted \in [Customers -> Nat] /\ \A d \in Customers : granted[d] <= MaxGranted[d]
        /\ MaxGranted \in [Customers -> Nat]
    BY AmountsAssumption DEF LoyaltyInv, LoyaltyTypeOK
  <2> QED
    BY <2>1, <2>2
<1>2. UNCHANGED <<visit, job, refund, deaths>>
  BY DEF Adjust, jobVars
<1>3. books' \in [Accounts -> Book]
  BY DEF GoodBooks
<1>4. LoyaltyTypeOK'
  BY <1>1, <1>2, <1>3, AmountsAssumption DEF LoyaltyInv, LoyaltyTypeOK, JobState
<1> QED
  BY <1>1, <1>2, <1>4 DEF LoyaltyInv, JobsInOrder, ReferralsKnown

LEMMA SweepTyped ==
    ASSUME LoyaltyInv, NEW s \in Sweeps, GoodBooks(books)',
           SweepList(s) \/ SweepAccount(s) \/ \E r \in Reservations : SweepLine(s, r)
    PROVE  LoyaltyTypeOK' /\ JobsInOrder' /\ ReferralsKnown'
<1> DEFINE S == [due : SUBSET Reservations, on : Customers \cup {Nobody}, held : Int]
<1>1. /\ UNCHANGED <<visit, job, refund, deaths, lapsed, stock, redeemed, granted, referral>>
  BY DEF SweepList, SweepAccount, SweepLine, jobVars, rewardVars
<1>2. sweep' \in [Sweeps -> S]
  <2>1. sweep \in [Sweeps -> S] /\ lapsed \subseteq Reservations
    BY DEF LoyaltyInv, LoyaltyTypeOK
  <2>2. CASE SweepList(s)
    BY <2>1, <2>2 DEF SweepList, IdleSweep
  <2>3. CASE SweepAccount(s)
    BY <2>3, SweepAccountHolds
  <2>4. ASSUME NEW r \in Reservations, SweepLine(s, r)
        PROVE  sweep' \in [Sweeps -> S]
    <3> DEFINE points == IF Listed(books, BusinessAccount(Guest[r]), "expired", r) THEN 0
                         ELSE AtMost(Points(Amount[r]), sweep[s].held)
    <3>1. points \in Int
      <4>1. Points(Amount[r]) \in Nat /\ sweep[s].held \in Int
        BY <2>1, PointsAreNatural, AmountsAssumption
      <4> QED BY <4>1 DEF AtMost
    <3>2. sweep' = [sweep EXCEPT ![s] =
                       IF sweep[s].due = {r} THEN IdleSweep
                       ELSE [due |-> sweep[s].due \ {r}, on |-> sweep[s].on,
                             held |-> sweep[s].held - points]]
      BY <2>4 DEF SweepLine
    <3> HIDE DEF points
    <3> QED BY <2>1, <3>1, <3>2 DEF IdleSweep
  <2> QED
    BY <2>2, <2>3, <2>4
<1>3. books' \in [Accounts -> Book]
  BY DEF GoodBooks
<1> QED
  BY <1>1, <1>2, <1>3
     DEF LoyaltyInv, LoyaltyTypeOK, JobState, JobsInOrder, ReferralsKnown

LEMMA EventTyped ==
    ASSUME LoyaltyInv, NEW r \in Reservations, Complete(r) \/ Refund(r) \/ Lapse(r)
    PROVE  LoyaltyTypeOK' /\ JobsInOrder' /\ ReferralsKnown'
<1>1. CASE Complete(r)
  BY <1>1 DEF Complete, LoyaltyInv, LoyaltyTypeOK, JobState, JobsInOrder, ReferralsKnown,
              rewardVars
<1>2. CASE Refund(r)
  BY <1>2 DEF Refund, LoyaltyInv, LoyaltyTypeOK, JobState, JobsInOrder, ReferralsKnown,
              rewardVars
<1>3. CASE Lapse(r)
  BY <1>3 DEF Lapse, LoyaltyInv, LoyaltyTypeOK, JobState, JobsInOrder, ReferralsKnown,
              rewardVars, jobVars
<1> QED
  BY <1>1, <1>2, <1>3

LEMMA LoyaltyStep ==
    ASSUME LoyaltyInv, [LoyaltyNext]_loyaltyVars
    PROVE  LoyaltyInv'
<1>1. GoodBooks(books)' /\ SweepsHold'
  BY StepKeepsBooks
<1>2. LoyaltyTypeOK' /\ JobsInOrder' /\ ReferralsKnown'
  <2>1. CASE UNCHANGED loyaltyVars
    BY <2>1 DEF loyaltyVars, jobVars, rewardVars, LoyaltyInv, LoyaltyTypeOK, JobsInOrder,
                ReferralsKnown
  <2>2. CASE LoyaltyNext
    BY <1>1, <2>2, ListenTyped, RedeemTyped, AdjustTyped, SweepTyped, EventTyped
       DEF LoyaltyNext
  <2> QED
    BY <2>1, <2>2
<1> QED
  BY <1>1, <1>2 DEF LoyaltyInv

------------------------------------------------------------------------------
(* Referrals and their lines *)

\* What is listed after a line was written: what was listed before, and the line.
LEMMA WrittenLists ==
    ASSUME NEW bk \in [Accounts -> Book], NEW a \in Accounts, NEW type \in LineTypes,
           NEW source \in Sources, NEW points \in Int, NEW base \in Int,
           NEW b \in Accounts, NEW u, NEW v
    PROVE  Listed(Written(bk, a, type, source, points, base), b, u, v)
             <=> Listed(bk, b, u, v) \/ (b = a /\ u = type /\ v = source)
<1> DEFINE line == [type |-> type, source |-> source, points |-> points,
                    after |-> base + points]
           new == Written(bk, a, type, source, points, base)
<1>1. CASE b # a
  <2>1. new[b] = bk[b]
    BY <1>1 DEF Written
  <2> HIDE DEF new
  <2> QED BY <1>1, <2>1 DEF Listed, new
<1>2. CASE b = a
  <2>1. bk[a].lines \in Seq(Line) /\ line \in Line
    <3>1. bk[a].lines \in Seq(Line)
      BY DEF Book
    <3>2. line \in Line
      BY DEF Line
    <3> QED BY <3>1, <3>2
  <2>2. new[a].lines = Append(bk[a].lines, line)
    BY DEF Written
  <2>3. line.type = type /\ line.source = source
    OBVIOUS
  <2> HIDE DEF new, line
  <2>4. /\ DOMAIN new[a].lines = 1..(Len(bk[a].lines) + 1)
        /\ DOMAIN bk[a].lines = 1..Len(bk[a].lines)
        /\ Len(bk[a].lines) \in Nat
        /\ new[a].lines[Len(bk[a].lines) + 1] = line
        /\ \A i \in 1..Len(bk[a].lines) : new[a].lines[i] = bk[a].lines[i]
    BY <2>1, <2>2
  <2>5. Listed(bk, b, u, v) => Listed(new, b, u, v)
    BY <1>2, <2>4 DEF Listed
  <2>6. u = type /\ v = source => Listed(new, b, u, v)
    BY <1>2, <2>3, <2>4 DEF Listed
  <2>7. Listed(new, b, u, v) => Listed(bk, b, u, v) \/ (u = type /\ v = source)
    <3>1. \A i \in 1..(Len(bk[a].lines) + 1) :
             i \in 1..Len(bk[a].lines) \/ i = Len(bk[a].lines) + 1
      BY <2>4
    <3> QED BY <1>2, <2>3, <2>4, <3>1 DEF Listed
  <2> QED
    BY <1>2, <2>5, <2>6, <2>7 DEF new
<1> QED
  BY <1>1, <1>2

LEMMA PostedLists ==
    ASSUME NEW bk \in [Accounts -> Book], NEW a \in Accounts, NEW type \in LineTypes,
           NEW source \in Sources, NEW points \in Int,
           NEW b \in Accounts, NEW u, NEW v
    PROVE  Listed(Posted(bk, a, type, source, points), b, u, v)
             <=> Listed(bk, b, u, v) \/ (b = a /\ u = type /\ v = source)
<1>1. bk[a].balance \in Int
  BY DEF Book
<1>2. CASE Listed(bk, a, type, source)
  BY <1>2 DEF Posted
<1>3. CASE ~Listed(bk, a, type, source)
  BY <1>1, <1>3, WrittenLists DEF Posted
<1> QED
  BY <1>2, <1>3

\* No step but an award adds a line of a referral.
LEMMA OnlyAwardsListReferrals ==
    ASSUME LoyaltyInv, [LoyaltyNext]_loyaltyVars, \A r \in Reservations : ~Award(r),
           NEW b \in Accounts, NEW v
    PROVE  Listed(books', b, "referral", v) <=> Listed(books, b, "referral", v)
<1> USE DEF LineTypes
<1>1. books \in [Accounts -> Book]
  BY DEF LoyaltyInv, GoodBooks
<1>2. CASE books' = books
  BY <1>2
<1>3. ASSUME NEW r \in Reservations, Earn(r)
      PROVE  Listed(books', b, "referral", v) <=> Listed(books, b, "referral", v)
  <2>1. /\ BusinessAccount(Guest[r]) \in Accounts /\ Points(Amount[r]) \in Int /\ r \in Sources
    BY AccountsExist, PointsAreNatural, PeopleAssumption, AmountsAssumption DEF Sources
  <2> QED
    BY <1>1, <1>3, <2>1, PostedLists DEF Earn
<1>4. ASSUME NEW r \in Reservations, Reverse(r), books' # books
      PROVE  Listed(books', b, "referral", v) <=> Listed(books, b, "referral", v)
  <2>1. /\ BusinessAccount(Guest[r]) \in Accounts /\ r \in Sources
    BY AccountsExist, PeopleAssumption DEF Sources
  <2>2. PICK points \in Reversals(Points(Amount[r]), Amount[r], Paid[r]) :
           /\ points <= books[BusinessAccount(Guest[r])].balance
           /\ books' = Posted(books, BusinessAccount(Guest[r]), "reversed", r, -points)
    BY <1>4, ReversePosts
  <2>3. -points \in Int
    <3>1. points \in Int
      BY PointsAreNatural, ReversalsAreIntegers, AmountsAssumption
    <3> QED BY <3>1
  <2> QED
    BY <1>1, <2>1, <2>2, <2>3, PostedLists
<1>5. ASSUME NEW c \in Customers, Redeem(c)
      PROVE  Listed(books', b, "referral", v) <=> Listed(books, b, "referral", v)
  <2> DEFINE a == BusinessAccount(c)
             id == Stock - stock
             spent == Posted(books, a, "redeemed", id, -Cost)
  <2>1. a \in Accounts /\ id \in Sources /\ -Cost \in Int /\ Bonus \in Int
    BY AccountsExist, RewardAssumption DEF LoyaltyInv, LoyaltyTypeOK, Sources
  <2>2. books' = spent \/ books' = Posted(spent, a, "bonus", id, Bonus)
    BY <1>5 DEF Redeem
  <2>3. books[a].balance \in Nat /\ books[a].balance + (-Cost) >= 0 /\ -Cost <= 0
    BY <1>5, <2>1, BalancesNotNegative, RewardAssumption DEF LoyaltyInv, Redeem
  <2> HIDE DEF a, id
  <2>4. spent \in [Accounts -> Book]
    BY <2>1, <2>3, PostedKeepsBooks DEF LoyaltyInv, GoodBooks
  <2>5. Listed(spent, b, "referral", v) <=> Listed(books, b, "referral", v)
    BY <1>1, <2>1, PostedLists
  <2> HIDE DEF spent
  <2>6. Listed(Posted(spent, a, "bonus", id, Bonus), b, "referral", v)
          <=> Listed(spent, b, "referral", v)
    BY <2>1, <2>4, PostedLists
  <2> QED
    BY <2>2, <2>5, <2>6
<1>6. ASSUME NEW m \in Managers, NEW c \in Customers, NEW points \in Adjustments,
             Adjust(m, c, points)
      PROVE  Listed(books', b, "referral", v) <=> Listed(books, b, "referral", v)
  <2>1. BusinessAccount(c) \in Accounts /\ m \in Sources /\ points \in Int
    BY AccountsExist, AmountsAssumption DEF Sources
  <2>2. books' = Posted(books, BusinessAccount(c), "adjusted", m, points)
    BY <1>6 DEF Adjust
  <2> QED
    BY <1>1, <2>1, <2>2, PostedLists
<1>7. ASSUME NEW s \in Sweeps, NEW r \in Reservations, SweepLine(s, r), books' # books
      PROVE  Listed(books', b, "referral", v) <=> Listed(books, b, "referral", v)
  <2>1. BusinessAccount(Guest[r]) \in Accounts /\ r \in Sources /\ sweep[s].held \in Int
    BY AccountsExist, PeopleAssumption DEF Sources, LoyaltyInv, LoyaltyTypeOK
  <2>2. Points(Amount[r]) \in Nat
    BY PointsAreNatural, AmountsAssumption
  <2>3. AtMost(Points(Amount[r]), sweep[s].held) \in Int
    BY <2>1, <2>2 DEF AtMost
  <2>4. PICK points \in Int :
           books' = Written(books, BusinessAccount(Guest[r]), "expired", r, points, sweep[s].held)
    <3>1. books' = Written(books, BusinessAccount(Guest[r]), "expired", r,
                           -AtMost(Points(Amount[r]), sweep[s].held), sweep[s].held)
      BY <1>7 DEF SweepLine
    <3> QED BY <2>3, <3>1
  <2> QED
    BY <1>1, <2>1, <2>4, WrittenLists
<1>8. CASE UNCHANGED loyaltyVars
  BY <1>2, <1>8 DEF loyaltyVars
<1>9. CASE LoyaltyNext /\ books' # books
  <2>1. \/ \E r \in Reservations : Earn(r) \/ Reverse(r)
        \/ \E c \in Customers : Redeem(c)
        \/ \E m \in Managers, c \in Customers, points \in Adjustments : Adjust(m, c, points)
        \/ \E s \in Sweeps, r \in Reservations : SweepLine(s, r)
    BY <1>9
       DEF LoyaltyNext, Listen, Complete, Refund, WorkerDies, Lapse, Look, Qualify, Acknowledge,
           SweepList, SweepAccount
  <2> QED
    BY <1>3, <1>4, <1>5, <1>6, <1>7, <1>9, <2>1
<1> QED
  BY <1>2, <1>8, <1>9

LEMMA RewardedStep ==
    ASSUME LoyaltyInv, RewardedTogether, [LoyaltyNext]_loyaltyVars
    PROVE  RewardedTogether'
<1> SUFFICES ASSUME NEW c \in Customers, Referrer[c] # Nobody
             PROVE  /\ referral'[c] = "rewarded"
                          <=> Listed(books', PlatformAccount(c), "referral", c)
                    /\ referral'[c] = "rewarded"
                          <=> Listed(books', PlatformAccount(Referrer[c]), "referral", c)
  BY DEF RewardedTogether
<1>1. /\ Referrer[c] \in Customers
      /\ PlatformAccount(c) \in Accounts /\ PlatformAccount(Referrer[c]) \in Accounts
  BY PeopleAssumption, AccountsExist
<1>2. /\ referral[c] = "rewarded" <=> Listed(books, PlatformAccount(c), "referral", c)
      /\ referral[c] = "rewarded"
            <=> Listed(books, PlatformAccount(Referrer[c]), "referral", c)
  BY DEF RewardedTogether
<1>3. CASE \A r \in Reservations : ~Award(r)
  <2>1. referral'[c] = "rewarded" <=> referral[c] = "rewarded"
    <3>1. CASE referral' = referral
      BY <3>1
    <3>2. CASE referral' # referral
      <4>1. PICK r \in Reservations : Qualify(r)
        BY <1>3, <3>2
           DEF LoyaltyNext, loyaltyVars, Listen, Complete, Refund, WorkerDies, Lapse, Earn, Look,
               Reverse, Acknowledge, Redeem, Adjust, SweepList, SweepAccount, SweepLine
      <4>2. referral \in [Customers -> {"none", "registered", "qualified", "rewarded"}]
        BY DEF LoyaltyInv, LoyaltyTypeOK
      <4>3. /\ referral[Guest[r]] = "registered"
            /\ referral' = [referral EXCEPT ![Guest[r]] = "qualified"]
        BY <3>2, <4>1 DEF Qualify
      <4> QED BY <4>2, <4>3
    <3> QED BY <3>1, <3>2
  <2> QED
    BY <1>1, <1>2, <1>3, <2>1, OnlyAwardsListReferrals
<1>4. ASSUME NEW r \in Reservations, Award(r)
      PROVE  /\ referral'[c] = "rewarded"
                   <=> Listed(books', PlatformAccount(c), "referral", c)
             /\ referral'[c] = "rewarded"
                   <=> Listed(books', PlatformAccount(Referrer[c]), "referral", c)
  <2> DEFINE d == Guest[r]
             first == Posted(books, PlatformAccount(Referrer[d]), "referral", d, ReferrerPoints)
  <2>1. CASE referral[d] # "qualified"
    BY <1>2, <1>4, <2>1 DEF Award
  <2>2. CASE referral[d] = "qualified"
    <3>1. /\ referral' = [referral EXCEPT ![d] = "rewarded"]
          /\ books' = Posted(first, PlatformAccount(d), "referral", d, ReferredPoints)
      BY <1>4, <2>2 DEF Award
    <3>2. d \in Customers /\ Referrer[d] \in Customers
      BY <2>2, PeopleAssumption DEF LoyaltyInv, ReferralsKnown
    <3>3. /\ PlatformAccount(d) \in Accounts /\ PlatformAccount(Referrer[d]) \in Accounts
          /\ d \in Sources /\ "referral" \in LineTypes
          /\ ReferrerPoints \in Nat /\ ReferredPoints \in Nat
      BY <3>2, AccountsExist, AmountsAssumption DEF Sources, LineTypes
    <3>4. referral \in [Customers -> {"none", "registered", "qualified", "rewarded"}]
          /\ GoodBooks(books) /\ books \in [Accounts -> Book]
      BY DEF LoyaltyInv, LoyaltyTypeOK
    <3> HIDE DEF d
    <3>5. first \in [Accounts -> Book]
      <4>1. books[PlatformAccount(Referrer[d])].balance + ReferrerPoints >= 0
        BY <3>3, <3>4, BalancesNotNegative
      <4> QED
        BY <3>3, <3>4, <4>1, PostedKeepsBooks DEF GoodBooks
    <3>6. \A b \in Accounts : Listed(first, b, "referral", c)
             <=> Listed(books, b, "referral", c) \/ (b = PlatformAccount(Referrer[d]) /\ c = d)
      BY <3>3, <3>4, PostedLists
    <3> HIDE DEF first
    <3>7. \A b \in Accounts : Listed(books', b, "referral", c)
             <=> Listed(first, b, "referral", c) \/ (b = PlatformAccount(d) /\ c = d)
      BY <3>1, <3>3, <3>5, PostedLists
    <3>8. CASE c = d
      BY <1>1, <3>1, <3>4, <3>6, <3>7, <3>8
    <3>9. CASE c # d
      BY <1>1, <1>2, <3>1, <3>2, <3>4, <3>6, <3>7, <3>9
    <3> QED
      BY <3>8, <3>9
  <2> QED
    BY <2>1, <2>2
<1> QED
  BY <1>3, <1>4

------------------------------------------------------------------------------
(* Theorems *)

\* The inductive invariant: good books, sweeps that hold no debts, referrals of
\* referred customers and jobs that stop when their tries are used up.
THEOREM LoyaltyInvariant == LoyaltySpec => []LoyaltyInv
<1>1. LoyaltyInv /\ [LoyaltyNext]_loyaltyVars => LoyaltyInv'
  BY LoyaltyStep
<1> QED
  BY LoyaltyInitHolds, <1>1, PTL DEF LoyaltySpec

\* Every variable of Loyalty keeps its type (the rows of the loyalty tables).
THEOREM LoyaltyTypeCorrect == LoyaltySpec => []LoyaltyTypeOK
<1>1. LoyaltyInv => LoyaltyTypeOK
  BY DEF LoyaltyInv
<1> QED
  BY LoyaltyInvariant, <1>1, PTL

\* No concurrent creditPoints or debitPoints loses the update of another: the
\* account is what its last line says and every line but an expiry continues
\* the one before.
THEOREM StatementsContinue == LoyaltySpec => []StatementContinues
<1>1. LoyaltyInv => StatementContinues
  <2> SUFFICES ASSUME LoyaltyInv, NEW a \in Accounts
               PROVE  /\ books[a].balance = Before(a, Len(books[a].lines) + 1)
                      /\ \A i \in 1..Len(books[a].lines) :
                            books[a].lines[i].type # "expired"
                              => books[a].lines[i].after = Before(a, i) + books[a].lines[i].points
    BY DEF StatementContinues
  <2>1. \A i : Before(a, i) = BeforeIn(books[a], i)
    BY DEF Before, BeforeIn
  <2> QED
    BY <2>1 DEF LoyaltyInv, GoodBooks, GoodBook
<1> QED
  BY LoyaltyInvariant, <1>1, PTL

\* No account is overdrawn by a late reversal, a redemption, an adjustment or
\* a sweep that writes what it computed from an old balance.
THEOREM NothingOverdrawn == LoyaltySpec => []NeverOverdrawn
<1>1. LoyaltyInv => NeverOverdrawn
  BY DEF LoyaltyInv, GoodBooks, GoodBook, NeverOverdrawn
<1> QED
  BY LoyaltyInvariant, <1>1, PTL

\* A referral that was stranded or missed is never rewarded, whatever happens
\* later: neither a retry of the listener nor another visit takes it up.
THEOREM LostReferralsStayLost == LoyaltySpec => LostStaysLost
<1>1. LoyaltyInv /\ [LoyaltyNext]_loyaltyVars
        => [\A c \in Customers : /\ Stranded(c) => Stranded(c)'
                                 /\ Missed(c) => Missed(c)']_loyaltyVars
  <2> SUFFICES ASSUME LoyaltyInv, LoyaltyNext, NEW c \in Customers
               PROVE  (Stranded(c) => Stranded(c)') /\ (Missed(c) => Missed(c)')
    OBVIOUS
  <2>1. /\ job \in [Reservations -> JobState] /\ visit \in [Reservations -> {"open", "completed"}]
        /\ referral \in [Customers -> {"none", "registered", "qualified", "rewarded"}]
    BY DEF LoyaltyInv, LoyaltyTypeOK
  <2>2. \A q \in Reservations : visit[q] = "completed" => visit'[q] = "completed"
    BY <2>1
       DEF LoyaltyNext, Listen, Complete, Refund, WorkerDies, Lapse, Earn, Look, Qualify, Award,
           Reverse, Acknowledge, Redeem, Adjust, SweepList, SweepAccount, SweepLine, jobVars
  <2>3. \A r \in Reservations :
           \/ job'[r].at \notin {"qualify", "award"}
           \/ job'[r].at = job[r].at
           \/ job[r].at = "qualify" /\ job'[r].at = "award"
           \/ /\ job'[r].at = "qualify" /\ referral[Guest[r]] = "registered"
              /\ \A q \in Reservations \ {r} :
                    ~(Guest[q] = Guest[r] /\ visit[q] = "completed")
    <3>1. ASSUME NEW s \in Reservations, Listen(s) \/ WorkerDies(s) \/ Complete(s)
          PROVE  \A r \in Reservations \ {s} : job'[r] = job[r]
      BY <2>1, <3>1
         DEF Listen, Complete, WorkerDies, Earn, Look, Qualify, Award, Reverse, Acknowledge
    <3>2. ASSUME NEW s \in Reservations, Look(s)
          PROVE  \/ job'[s].at = "ack"
                 \/ /\ job'[s].at = "qualify" /\ referral[Guest[s]] = "registered"
                    /\ \A q \in Reservations \ {s} :
                          ~(Guest[q] = Guest[s] /\ visit[q] = "completed")
      BY <2>1, <3>2 DEF Look, JobState
    <3>3. ASSUME NEW s \in Reservations, Listen(s) \/ WorkerDies(s) \/ Complete(s), ~Look(s)
          PROVE  \/ job'[s].at \notin {"qualify", "award"}
                 \/ job'[s].at = job[s].at
                 \/ job[s].at = "qualify" /\ job'[s].at = "award"
      BY <2>1, <3>3
         DEF Listen, Complete, WorkerDies, Earn, Qualify, Award, Reverse, Acknowledge, Retried,
             JobState
    <3>4. CASE job' = job
      BY <3>4
    <3>5. CASE job' # job
      <4>1. PICK s \in Reservations : Listen(s) \/ WorkerDies(s) \/ Complete(s)
        BY <3>5
           DEF LoyaltyNext, Refund, Lapse, Redeem, Adjust, SweepList, SweepAccount, SweepLine,
               jobVars
      <4> QED
        BY <3>1, <3>2, <3>3, <4>1
    <3> QED
      BY <3>4, <3>5
  <2>4. ASSUME referral'[c] # referral[c]
        PROVE  \E r \in Reservations :
                  /\ Guest[r] = c
                  /\ \/ job[r].at = "qualify" /\ referral[c] = "registered"
                     \/ job[r].at = "award" /\ referral[c] = "qualified"
    <3>1. PICK r \in Reservations : Qualify(r) \/ Award(r)
      BY <2>4
         DEF LoyaltyNext, Listen, Complete, Refund, WorkerDies, Lapse, Earn, Look, Reverse,
             Acknowledge, Redeem, Adjust, SweepList, SweepAccount, SweepLine
    <3>2. CASE Qualify(r)
      BY <2>1, <2>4, <3>2, PeopleAssumption DEF Qualify
    <3>3. CASE Award(r)
      BY <2>1, <2>4, <3>3, AwardMoves, PeopleAssumption DEF Award
    <3> QED
      BY <3>1, <3>2, <3>3
  <2>5. Stranded(c) => Stranded(c)'
    BY <2>3, <2>4 DEF Stranded, JobsOf
  <2>6. Missed(c) => Missed(c)'
    BY <2>2, <2>3, <2>4 DEF Missed, JobsOf
  <2> QED
    BY <2>5, <2>6
<1> QED
  BY LoyaltyInvariant, <1>1, PTL DEF LoyaltySpec, LostStaysLost

\* A referral is rewarded exactly when both sides have their line, although
\* awardReferralRewards may be run again after a worker died.
THEOREM RewardsComeTogether == LoyaltySpec => []RewardedTogether
<1>1. LoyaltyInit => RewardedTogether
  <2> SUFFICES ASSUME LoyaltyInit, NEW c \in Customers, NEW a \in Accounts
               PROVE  referral[c] # "rewarded" /\ ~Listed(books, a, "referral", c)
    BY PeopleAssumption, AccountsExist DEF RewardedTogether
  <2> QED
    BY DEF LoyaltyInit, Listed, EmptyBook
<1>2. LoyaltyInv /\ RewardedTogether /\ [LoyaltyNext]_loyaltyVars => RewardedTogether'
  BY RewardedStep
<1> QED
  BY LoyaltyInvariant, <1>1, <1>2, PTL DEF LoyaltySpec

------------------------------------------------------------------------------
(* The lifetime counters *)

\* The reservations that earned points in book b, and the grants among its lines.
VisitsIn(b) ==
    {r \in Reservations : \E i \in DOMAIN b.lines : b.lines[i].type = "earned"
                                                 /\ b.lines[i].source = r}
GrantsIn(b) == {i \in DOMAIN b.lines : b.lines[i].type = "adjusted" /\ b.lines[i].points > 0}

\* What each of them gave, and all of them together.
VisitPoints == [r \in Reservations |-> Points(Amount[r])]
PointsIn(b) == [i \in DOMAIN b.lines |-> b.lines[i].points]
Given(b) == SumOf(VisitPoints, VisitsIn(b)) + SumOf(PointsIn(b), GrantsIn(b))

\* What lifetime_earned counts beyond the visits and the grants.
Extra(b) == b.earned - Given(b)

\* Redemptions are numbered: the lines of one carry a number below n.
NumbersBelow(b, n) ==
    \A i \in DOMAIN b.lines :
        b.lines[i].type \in {"redeemed", "bonus"} => b.lines[i].source \in Nat /\ b.lines[i].source < n

\* What is to be shown of the book of customer c who redeemed k times.
Explained(b, c, k) ==
    /\ Extra(b) = Bonus * k
    /\ b.redeemed = Cost * k
    /\ NumbersBelow(b, Stock - stock)
    /\ \A r \in VisitsIn(b) : Guest[r] = c /\ visit[r] = "completed"

Counters ==
    /\ \A c \in Customers : Explained(books[BusinessAccount(c)], c, redeemed[c])
    /\ stock + SumOf(redeemed, Customers) = Stock

\* Finitely many reservations earned points in a book.
LEMMA VisitsAreFinite ==
    ASSUME NEW b \in Book
    PROVE  /\ IsFiniteSet(VisitsIn(b)) /\ IsFiniteSet(GrantsIn(b))
           /\ \A r \in VisitsIn(b) : VisitPoints[r] \in Int
           /\ \A i \in GrantsIn(b) : PointsIn(b)[i] \in Int
           /\ Given(b) \in Int
<1> DEFINE E == {i \in DOMAIN b.lines : b.lines[i].type = "earned" /\ b.lines[i].source \in Reservations}
           f == [i \in E |-> b.lines[i].source]
<1>1. b.lines \in Seq(Line) /\ DOMAIN b.lines = 1..Len(b.lines) /\ Len(b.lines) \in Nat
  BY DEF Book
<1>2. IsFiniteSet(DOMAIN b.lines)
  BY <1>1, FS_Interval
<1>3. IsFiniteSet(E) /\ IsFiniteSet(GrantsIn(b))
  BY <1>2, FS_Subset DEF GrantsIn
<1>4. f \in Surjection(E, VisitsIn(b))
  <2>1. \A i \in E : f[i] \in VisitsIn(b)
    BY DEF VisitsIn
  <2>2. \A r \in VisitsIn(b) : \E i \in E : f[i] = r
    BY DEF VisitsIn
  <2> HIDE DEF E
  <2> QED
    BY <2>1, <2>2 DEF Surjection
<1>5. IsFiniteSet(VisitsIn(b))
  <2> HIDE DEF f, E
  <2> QED BY <1>3, <1>4, FS_Surjection
<1>6. \A r \in VisitsIn(b) : VisitPoints[r] \in Int
  BY PointsAreNatural, AmountsAssumption DEF VisitsIn, VisitPoints
<1>7. \A i \in GrantsIn(b) : PointsIn(b)[i] \in Int
  <2>1. \A i \in DOMAIN b.lines : b.lines[i].points \in Int
    <3>1. \A i \in DOMAIN b.lines : b.lines[i] \in Line
      BY <1>1
    <3> QED
      BY <3>1 DEF Line
  <2> QED
    BY <2>1 DEF GrantsIn, PointsIn
<1>8. Given(b) \in Int
  BY <1>3, <1>5, <1>6, <1>7, SumIsInteger DEF Given
<1> QED
  BY <1>3, <1>5, <1>6, <1>7, <1>8

\* A line adds to what was given as much as it adds to lifetime_earned, unless
\* it is a bonus or the reward of a referral.
LEMMA LineGives ==
    ASSUME NEW b \in Book, NEW line \in Line, NEW new \in Book,
           new.lines = Append(b.lines, line),
           line.type = "earned" =>
              /\ line.source \in Reservations \ VisitsIn(b)
              /\ line.points = Points(Amount[line.source])
    PROVE  /\ VisitsIn(new) = IF line.type = "earned" THEN VisitsIn(b) \cup {line.source}
                              ELSE VisitsIn(b)
           /\ Given(new) = Given(b) + IF \/ line.type = "earned"
                                         \/ line.type = "adjusted" /\ line.points > 0
                                      THEN line.points ELSE 0
           /\ \A n \in Nat : NumbersBelow(b, n)
                 /\ (line.type \in {"redeemed", "bonus"} => line.source \in Nat /\ line.source < n)
                 => NumbersBelow(new, n)
<1> DEFINE n == Len(b.lines) + 1
<1>1. b.lines \in Seq(Line)
  BY DEF Book
<1>2. /\ DOMAIN new.lines = 1..n /\ DOMAIN b.lines = 1..(n - 1) /\ n \in Nat \ {0}
      /\ new.lines[n] = line
      /\ \A i \in 1..(n - 1) : new.lines[i] = b.lines[i]
  BY <1>1
<1> HIDE DEF n
<1>3. /\ DOMAIN new.lines = DOMAIN b.lines \cup {n} /\ n \notin DOMAIN b.lines
      /\ \A i \in DOMAIN b.lines : new.lines[i] = b.lines[i]
  BY <1>2
<1>4. VisitsIn(new) = IF line.type = "earned" THEN VisitsIn(b) \cup {line.source}
                      ELSE VisitsIn(b)
  <2>1. \A r \in Reservations : r \in VisitsIn(new)
           <=> r \in VisitsIn(b) \/ (line.type = "earned" /\ line.source = r)
    BY <1>2, <1>3 DEF VisitsIn
  <2>2. VisitsIn(new) \subseteq Reservations /\ VisitsIn(b) \subseteq Reservations
    BY DEF VisitsIn
  <2> QED
    BY <2>1, <2>2
<1>5. GrantsIn(new) = IF line.type = "adjusted" /\ line.points > 0 THEN GrantsIn(b) \cup {n}
                      ELSE GrantsIn(b)
  BY <1>2, <1>3 DEF GrantsIn
<1>6. /\ \A i \in GrantsIn(b) : PointsIn(new)[i] = PointsIn(b)[i]
      /\ PointsIn(new)[n] = line.points /\ line.points \in Int
      /\ n \notin GrantsIn(b)
  BY <1>2, <1>3 DEF GrantsIn, PointsIn, Line
<1>7. SumOf(VisitPoints, VisitsIn(new))
         = SumOf(VisitPoints, VisitsIn(b)) + IF line.type = "earned" THEN line.points ELSE 0
  <2>1. SumOf(VisitPoints, VisitsIn(b)) \in Int
    BY VisitsAreFinite, SumIsInteger
  <2>2. CASE line.type # "earned"
    BY <1>4, <2>1, <2>2
  <2>3. CASE line.type = "earned"
    <3>1. /\ VisitPoints[line.source] = line.points /\ line.points \in Int
          /\ line.source \notin VisitsIn(b)
          /\ VisitsIn(new) = VisitsIn(b) \cup {line.source}
      BY <1>4, <1>6, <2>3 DEF VisitPoints
    <3>2. \A r \in VisitsIn(b) \cup {line.source} : VisitPoints[r] \in Int
      BY <3>1, VisitsAreFinite
    <3>3. SumOf(VisitPoints, VisitsIn(b) \cup {line.source})
             = VisitPoints[line.source] + SumOf(VisitPoints, VisitsIn(b))
      BY <3>1, <3>2, VisitsAreFinite, SumAdd
    <3> QED
      BY <2>1, <2>3, <3>1, <3>3
  <2> QED
    BY <2>2, <2>3
<1>8. SumOf(PointsIn(new), GrantsIn(new))
         = SumOf(PointsIn(b), GrantsIn(b))
              + IF line.type = "adjusted" /\ line.points > 0 THEN line.points ELSE 0
  <2>1. SumOf(PointsIn(b), GrantsIn(b)) \in Int
    BY VisitsAreFinite, SumIsInteger
  <2>2. SumOf(PointsIn(new), GrantsIn(b)) = SumOf(PointsIn(b), GrantsIn(b))
    BY <1>6, VisitsAreFinite, SumCongruent
  <2>3. CASE ~(line.type = "adjusted" /\ line.points > 0)
    BY <1>5, <2>1, <2>2, <2>3
  <2>4. CASE line.type = "adjusted" /\ line.points > 0
    <3>1. \A i \in GrantsIn(b) \cup {n} : PointsIn(new)[i] \in Int
      BY <1>6, VisitsAreFinite
    <3>2. SumOf(PointsIn(new), GrantsIn(b) \cup {n})
             = PointsIn(new)[n] + SumOf(PointsIn(new), GrantsIn(b))
      BY <1>6, <3>1, VisitsAreFinite, SumAdd
    <3> QED
      BY <1>5, <1>6, <2>1, <2>2, <2>4, <3>2
  <2> QED
    BY <2>3, <2>4
<1>9. Given(new) = Given(b) + IF \/ line.type = "earned"
                                 \/ line.type = "adjusted" /\ line.points > 0
                              THEN line.points ELSE 0
  <2>1. /\ SumOf(VisitPoints, VisitsIn(b)) \in Int /\ SumOf(PointsIn(b), GrantsIn(b)) \in Int
        /\ line.points \in Int
    BY <1>6, VisitsAreFinite, SumIsInteger
  <2> QED
    BY <1>7, <1>8, <2>1 DEF Given
<1>10. ASSUME NEW k \in Nat, NumbersBelow(b, k),
              line.type \in {"redeemed", "bonus"} => line.source \in Nat /\ line.source < k
       PROVE  NumbersBelow(new, k)
  BY <1>2, <1>3, <1>10 DEF NumbersBelow
<1> QED
  BY <1>4, <1>9, <1>10

\* What Written does to the counters of the account.
LEMMA WrittenCounts ==
    ASSUME NEW bk, GoodBooks(bk), NEW a \in Accounts, NEW type \in LineTypes,
           NEW source \in Sources, NEW points \in Int, NEW base \in Int,
           base + points >= 0,
           type = "redeemed" => points <= 0,
           type # "expired" => base = bk[a].balance,
           type = "earned" =>
              /\ source \in Reservations /\ ~Listed(bk, a, "earned", source)
              /\ points = Points(Amount[source]),
           NEW new, new = Written(bk, a, type, source, points, base)
    PROVE  /\ \A d \in Accounts \ {a} : new[d] = bk[d]
           /\ \/ VisitsIn(new[a]) = VisitsIn(bk[a])
              \/ type = "earned" /\ VisitsIn(new[a]) = VisitsIn(bk[a]) \cup {source}
           /\ type \in {"earned", "adjusted"} \/ points <= 0 => Extra(new[a]) = Extra(bk[a])
           /\ type = "bonus" /\ points >= 0 => Extra(new[a]) = Extra(bk[a]) + points
           /\ type = "redeemed" => new[a].redeemed = bk[a].redeemed - points
           /\ type # "redeemed" => new[a].redeemed = bk[a].redeemed
           /\ \A n \in Nat : NumbersBelow(bk[a], n)
                 /\ (type \in {"redeemed", "bonus"} => source \in Nat /\ source < n)
                 => NumbersBelow(new[a], n)
<1> DEFINE b == bk[a]
           line == [type |-> type, source |-> source, points |-> points,
                    after |-> base + points]
<1>1. bk \in [Accounts -> Book] /\ b \in Book
  BY DEF GoodBooks
<1>2. new \in [Accounts -> Book] /\ new[a] \in Book
  BY WrittenKeepsBooks DEF GoodBooks
<1>3. /\ \A d \in Accounts \ {a} : new[d] = bk[d]
      /\ new[a].lines = Append(b.lines, line)
      /\ new[a].earned = IF points > 0 THEN b.earned + points ELSE b.earned
      /\ new[a].redeemed = IF type = "redeemed" THEN b.redeemed - points ELSE b.redeemed
  BY <1>1 DEF Written
<1>4. /\ line \in Line /\ line.type = type /\ line.source = source /\ line.points = points
  BY DEF Line
<1>5. type = "earned" =>
         /\ source \in Reservations \ VisitsIn(b)
         /\ points = Points(Amount[source]) /\ points >= 0
  BY PointsAreNatural, AmountsAssumption DEF Listed, VisitsIn
<1> HIDE DEF b, line
<1>6. /\ VisitsIn(new[a]) = IF type = "earned" THEN VisitsIn(b) \cup {source} ELSE VisitsIn(b)
      /\ Given(new[a]) = Given(b) + IF type = "earned" \/ (type = "adjusted" /\ points > 0)
                                    THEN points ELSE 0
      /\ \A n \in Nat : NumbersBelow(b, n)
            /\ (type \in {"redeemed", "bonus"} => source \in Nat /\ source < n)
            => NumbersBelow(new[a], n)
  BY <1>1, <1>2, <1>3, <1>4, <1>5, LineGives
<1>7. Given(b) \in Int /\ Given(new[a]) \in Int /\ b.earned \in Int
  BY <1>1, <1>2, VisitsAreFinite DEF Book
<1>8. /\ type \in {"earned", "adjusted"} \/ points <= 0 => Extra(new[a]) = Extra(b)
      /\ type = "bonus" /\ points >= 0 => Extra(new[a]) = Extra(b) + points
  BY <1>3, <1>5, <1>6, <1>7 DEF Extra
<1> QED
  BY <1>3, <1>6, <1>8 DEF b

\* A line of a visit, a reversal, an adjustment or an expiry leaves everything
\* explained.
LEMMA CountersKept ==
    ASSUME LoyaltyInv, Counters, UNCHANGED <<visit, stock, redeemed>>,
           NEW c \in Customers, NEW type \in {"earned", "reversed", "adjusted", "expired"},
           NEW source \in Sources, NEW points \in Int, NEW base \in Int,
           base + points >= 0,
           type # "expired" => base = books[BusinessAccount(c)].balance,
           type \in {"reversed", "expired"} => points <= 0,
           type = "earned" =>
              /\ source \in Reservations /\ Guest[source] = c /\ visit[source] = "completed"
              /\ ~Listed(books, BusinessAccount(c), "earned", source)
              /\ points = Points(Amount[source]),
           books' = Written(books, BusinessAccount(c), type, source, points, base)
    PROVE  Counters'
<1> DEFINE a == BusinessAccount(c)
<1>1. a \in Accounts /\ type \in LineTypes
  BY AccountsExist DEF LineTypes
<1>2. GoodBooks(books) /\ books[a] \in Book
  BY <1>1 DEF LoyaltyInv, GoodBooks
<1>3. /\ type = "redeemed" => points <= 0
      /\ type # "expired" => base = books[a].balance
      /\ type = "earned" => /\ source \in Reservations /\ ~Listed(books, a, "earned", source)
                            /\ points = Points(Amount[source])
      /\ books' = Written(books, a, type, source, points, base)
  OBVIOUS
<1> HIDE DEF a
<1>4. GoodBooks(books') /\ books'[a] \in Book
  BY <1>1, <1>2, <1>3, WrittenKeepsBooks DEF GoodBooks
<1>5. /\ \A d \in Accounts \ {a} : books'[d] = books[d]
      /\ \/ VisitsIn(books'[a]) = VisitsIn(books[a])
         \/ type = "earned" /\ VisitsIn(books'[a]) = VisitsIn(books[a]) \cup {source}
      /\ Extra(books'[a]) = Extra(books[a])
      /\ books'[a].redeemed = books[a].redeemed
      /\ \A n \in Nat : NumbersBelow(books[a], n) => NumbersBelow(books'[a], n)
  BY <1>1, <1>2, <1>3, WrittenCounts
<1>6. ASSUME NEW d \in Customers
      PROVE  Explained(books[BusinessAccount(d)], d, redeemed[d])'
  <2>1. Explained(books[BusinessAccount(d)], d, redeemed[d])
    BY DEF Counters
  <2>2. CASE d # c
    <3>1. BusinessAccount(d) \in Accounts \ {a}
      BY <2>2, AccountsExist DEF BusinessAccount, a
    <3>2. books'[BusinessAccount(d)] = books[BusinessAccount(d)]
      BY <1>5, <3>1
    <3> QED
      BY <2>1, <3>2 DEF Explained
  <2>3. CASE d = c
    <3>1. Stock - stock \in Nat
      BY RewardAssumption DEF LoyaltyInv, LoyaltyTypeOK
    <3>2. Explained(books[a], c, redeemed[c])
      BY <2>1, <2>3 DEF a
    <3>3. \A r \in VisitsIn(books'[a]) : Guest[r] = c /\ visit'[r] = "completed"
      BY <1>5, <3>2 DEF Explained
    <3> QED
      BY <1>5, <2>3, <3>1, <3>2, <3>3 DEF Explained, a
  <2> QED
    BY <2>2, <2>3
<1> QED
  BY <1>6 DEF Counters

\* A redemption takes a number that no line of the account carries yet, so both
\* of its lines are written.
LEMMA RedeemWrites ==
    ASSUME LoyaltyInv, Counters, NEW c \in Customers, Redeem(c),
           NEW a, a = BusinessAccount(c), NEW id, id = Stock - stock,
           NEW spent, spent = Written(books, a, "redeemed", id, -Cost, books[a].balance)
    PROVE  /\ id \in Nat /\ id \in Sources
           /\ GoodBooks(spent)
           /\ ~Listed(spent, a, "bonus", id)
           /\ books' = IF Bonus = 0 THEN spent
                       ELSE Written(spent, a, "bonus", id, Bonus, spent[a].balance)
<1>1. a \in Accounts /\ GoodBooks(books) /\ books \in [Accounts -> Book]
      /\ "redeemed" \in LineTypes
  BY AccountsExist DEF LoyaltyInv, GoodBooks, LineTypes
<1>2. id \in Nat /\ id \in Sources
  BY RewardAssumption DEF LoyaltyInv, LoyaltyTypeOK, Sources
<1>3. ~Listed(books, a, "redeemed", id) /\ ~Listed(books, a, "bonus", id)
  <2>1. NumbersBelow(books[a], id)
    BY DEF Counters, Explained
  <2> QED
    BY <1>2, <2>1 DEF Listed, NumbersBelow
<1>4. books[a].balance \in Nat /\ books[a].balance >= Cost /\ Cost \in Nat
  BY <1>1, BalancesNotNegative, RewardAssumption DEF Redeem
<1>5. GoodBooks(spent)
  <2>1. -Cost \in Int /\ books[a].balance \in Int /\ books[a].balance + (-Cost) >= 0 /\ -Cost <= 0
    BY <1>4
  <2> QED
    BY <1>1, <1>2, <2>1, WrittenKeepsBooks
<1>6. ~Listed(spent, a, "bonus", id)
  <2>1. -Cost \in Int /\ books[a].balance \in Int
    BY <1>4
  <2> QED
    BY <1>1, <1>2, <1>3, <2>1, WrittenLists
<1>7. Posted(books, a, "redeemed", id, -Cost) = spent
  BY <1>3 DEF Posted
<1>8. books' = IF Bonus = 0 THEN spent ELSE Posted(spent, a, "bonus", id, Bonus)
  BY <1>7 DEF Redeem
<1> QED
  BY <1>2, <1>5, <1>6, <1>8 DEF Posted

\* A redemption counts its cost, its bonus and its number once.
LEMMA RedeemCounts ==
    ASSUME LoyaltyInv, Counters, NEW c \in Customers, Redeem(c),
           NEW a, a = BusinessAccount(c), NEW id, id = Stock - stock
    PROVE  /\ \A d \in Accounts \ {a} : books'[d] = books[d]
           /\ VisitsIn(books'[a]) = VisitsIn(books[a])
           /\ Extra(books'[a]) = Extra(books[a]) + Bonus
           /\ books'[a].redeemed = books[a].redeemed + Cost
           /\ NumbersBelow(books'[a], id + 1)
<1> DEFINE spent == Written(books, a, "redeemed", id, -Cost, books[a].balance)
           both == Written(spent, a, "bonus", id, Bonus, spent[a].balance)
<1>1. a \in Accounts /\ GoodBooks(books) /\ books[a] \in Book
      /\ "redeemed" \in LineTypes /\ "bonus" \in LineTypes
  BY AccountsExist DEF LoyaltyInv, GoodBooks, LineTypes
<1>2. /\ id \in Nat /\ id \in Sources /\ GoodBooks(spent)
      /\ books' = IF Bonus = 0 THEN spent ELSE both
  BY RedeemWrites
<1>3. Cost \in Nat \ {0} /\ Bonus \in Nat /\ books[a].balance \in Nat /\ books[a].balance >= Cost
  BY <1>1, BalancesNotNegative, RewardAssumption DEF Redeem
<1>4. NumbersBelow(books[a], id + 1) /\ id + 1 \in Nat /\ id < id + 1
  <2>1. NumbersBelow(books[a], id)
    BY DEF Counters, Explained
  <2> QED
    BY <1>2, <2>1 DEF NumbersBelow
<1>5. /\ \A d \in Accounts \ {a} : spent[d] = books[d]
      /\ VisitsIn(spent[a]) = VisitsIn(books[a])
      /\ Extra(spent[a]) = Extra(books[a])
      /\ spent[a].redeemed = books[a].redeemed + Cost
      /\ NumbersBelow(spent[a], id + 1)
  <2> DEFINE points == -Cost
  <2>1. /\ points \in Int /\ books[a].balance \in Int /\ books[a].balance + points >= 0
        /\ points <= 0
        /\ spent = Written(books, a, "redeemed", id, points, books[a].balance)
    BY <1>3
  <2>2. books[a].redeemed - points = books[a].redeemed + Cost
    BY <1>1, <1>3 DEF Book
  <2> HIDE DEF points, spent, both
  <2> QED
    BY <1>1, <1>2, <1>4, <2>1, <2>2, WrittenCounts
<1>6. /\ \A d \in Accounts \ {a} : both[d] = spent[d]
      /\ VisitsIn(both[a]) = VisitsIn(spent[a])
      /\ Extra(both[a]) = Extra(spent[a]) + Bonus
      /\ both[a].redeemed = spent[a].redeemed
      /\ NumbersBelow(both[a], id + 1)
  <2> HIDE DEF spent
  <2>1. /\ Bonus \in Int /\ spent[a].balance \in Int /\ spent[a].balance + Bonus >= 0
    BY <1>1, <1>2, <1>3, BalancesNotNegative
  <2>2. both = Written(spent, a, "bonus", id, Bonus, spent[a].balance)
    OBVIOUS
  <2> HIDE DEF both
  <2> QED
    BY <1>1, <1>2, <1>3, <1>4, <1>5, <2>1, <2>2, WrittenCounts
<1>7. Extra(books[a]) \in Int
  BY <1>1, VisitsAreFinite DEF Book, Extra
<1> HIDE DEF spent, both
<1> QED
  BY <1>2, <1>3, <1>5, <1>6, <1>7

\* A redemption leaves the counters explained.
LEMMA RedeemKeepsCounters ==
    ASSUME LoyaltyInv, Counters, NEW c \in Customers, Redeem(c)
    PROVE  Counters'
<1> DEFINE a == BusinessAccount(c)
           id == Stock - stock
<1>1. /\ \A d \in Accounts \ {a} : books'[d] = books[d]
      /\ VisitsIn(books'[a]) = VisitsIn(books[a])
      /\ Extra(books'[a]) = Extra(books[a]) + Bonus
      /\ books'[a].redeemed = books[a].redeemed + Cost
      /\ NumbersBelow(books'[a], id + 1)
  <2>1. a = BusinessAccount(c) /\ id = Stock - stock
    OBVIOUS
  <2> HIDE DEF a, id
  <2> QED
    BY <2>1, RedeemCounts
<1>2. /\ stock' = stock - 1 /\ redeemed' = [redeemed EXCEPT ![c] = redeemed[c] + 1]
      /\ visit' = visit
  BY DEF Redeem, jobVars
<1>3. /\ redeemed \in [Customers -> Nat] /\ stock \in Nat /\ Stock \in Nat /\ stock <= Stock
      /\ Cost \in Nat /\ Bonus \in Nat
  BY RewardAssumption DEF LoyaltyInv, LoyaltyTypeOK
<1>4. redeemed'[c] = redeemed[c] + 1 /\ \A d \in Customers \ {c} : redeemed'[d] = redeemed[d]
  BY <1>2, <1>3
<1>5. ASSUME NEW d \in Customers \ {c}
      PROVE  Explained(books[BusinessAccount(d)], d, redeemed[d])'
  <2>1. Explained(books[BusinessAccount(d)], d, redeemed[d])
    BY DEF Counters
  <2>2. BusinessAccount(d) \in Accounts \ {a}
    BY AccountsExist DEF BusinessAccount
  <2>3. books'[BusinessAccount(d)] = books[BusinessAccount(d)] /\ redeemed'[d] = redeemed[d]
    BY <1>1, <1>4, <2>2
  <2>4. NumbersBelow(books[BusinessAccount(d)], Stock - stock')
    <3>1. \A k \in Nat : k < Stock - stock => k < Stock - stock'
      BY <1>2, <1>3
    <3> QED
      BY <2>1, <3>1 DEF Explained, NumbersBelow
  <2> QED
    BY <1>2, <2>1, <2>3, <2>4 DEF Explained
<1>6. Explained(books[a], c, redeemed[c])'
  <2>1. Explained(books[a], c, redeemed[c])
    BY DEF Counters
  <2>2. Bonus * (redeemed[c] + 1) = Bonus * redeemed[c] + Bonus
        /\ Cost * (redeemed[c] + 1) = Cost * redeemed[c] + Cost
    BY <1>3
  <2>3. id + 1 = Stock - stock'
    BY <1>2, <1>3
  <2> HIDE DEF a, id
  <2> QED
    BY <1>1, <1>2, <1>4, <2>1, <2>2, <2>3 DEF Explained
<1>7. stock' + SumOf(redeemed', Customers) = Stock
  <2>1. SumOf(redeemed', Customers) = SumOf(redeemed, Customers) - redeemed[c] + redeemed'[c]
    <3>1. \A d \in Customers : redeemed[d] \in Int /\ redeemed'[d] \in Int
      BY <1>2, <1>3
    <3> QED
      BY <1>4, <3>1, PeopleAssumption, SumChanged
  <2>2. SumOf(redeemed, Customers) \in Int
    BY <1>3, PeopleAssumption, SumIsInteger
  <2>3. stock + SumOf(redeemed, Customers) = Stock
    BY DEF Counters
  <2> QED
    BY <1>2, <1>3, <1>4, <2>1, <2>2, <2>3
<1> QED
  BY <1>5, <1>6, <1>7 DEF Counters

\* The books of a customer at the business are not those of the platform.
LEMMA AwardLeavesBusiness ==
    ASSUME LoyaltyInv, NEW r \in Reservations, Award(r), NEW d \in Customers
    PROVE  books'[BusinessAccount(d)] = books[BusinessAccount(d)]
<1> DEFINE c == Guest[r]
           first == Posted(books, PlatformAccount(Referrer[c]), "referral", c, ReferrerPoints)
<1>1. books \in [Accounts -> Book] /\ BusinessAccount(d) \in Accounts
  BY AccountsExist DEF LoyaltyInv, GoodBooks
<1>2. \A e : PlatformAccount(e) # BusinessAccount(d)
  BY DEF PlatformAccount, BusinessAccount
<1>3. first[BusinessAccount(d)] = books[BusinessAccount(d)] /\ DOMAIN first = Accounts
  BY <1>1, <1>2 DEF Posted, Written
<1>4. books' = books \/ books' = Posted(first, PlatformAccount(c), "referral", c, ReferredPoints)
  BY DEF Award
<1> HIDE DEF first, c
<1> QED
  BY <1>1, <1>2, <1>3, <1>4 DEF Posted, Written

\* Every step leaves the counters explained.
LEMMA CountersStep ==
    ASSUME LoyaltyInv, Counters, [LoyaltyNext]_loyaltyVars
    PROVE  Counters'
<1>1. ASSUME UNCHANGED <<stock, redeemed>>,
             \A r \in Reservations : visit[r] = "completed" => visit'[r] = "completed",
             \A d \in Customers : books'[BusinessAccount(d)] = books[BusinessAccount(d)]
      PROVE  Counters'
  <2>1. ASSUME NEW d \in Customers
        PROVE  Explained(books[BusinessAccount(d)], d, redeemed[d])'
    <3>1. Explained(books[BusinessAccount(d)], d, redeemed[d])
      BY DEF Counters
    <3>2. VisitsIn(books[BusinessAccount(d)]) \subseteq Reservations
      BY DEF VisitsIn
    <3> QED
      BY <1>1, <3>1, <3>2 DEF Explained
  <2> QED
    BY <1>1, <2>1 DEF Counters
<1>2. visit \in [Reservations -> {"open", "completed"}] /\ GoodBooks(books)
  BY DEF LoyaltyInv, LoyaltyTypeOK
<1>3. ASSUME NEW r \in Reservations, Earn(r), books' # books
      PROVE  Counters'
  <2> DEFINE c == Guest[r]
             points == Points(Amount[r])
             base == books[BusinessAccount(c)].balance
  <2>1. /\ ~Listed(books, BusinessAccount(c), "earned", r)
        /\ books' = Written(books, BusinessAccount(c), "earned", r, points, base)
        /\ UNCHANGED <<visit, stock, redeemed>>
    BY <1>3 DEF Earn, Posted, rewardVars
  <2>2. visit[r] = "completed"
    BY <1>2, <1>3 DEF Earn, LoyaltyInv, JobsInOrder
  <2>3. /\ c \in Customers /\ r \in Sources /\ points \in Nat /\ base \in Nat
        /\ base + points >= 0
    BY <1>2, PeopleAssumption, AmountsAssumption, PointsAreNatural, AccountsExist,
       BalancesNotNegative DEF Sources
  <2> DEFINE type == "earned"
  <2>4. /\ type \in {"earned", "reversed", "adjusted", "expired"}
        /\ type \notin {"reversed", "expired"}
        /\ books' = Written(books, BusinessAccount(c), type, r, points, base)
    BY <2>1
  <2>5. Guest[r] = c /\ points = Points(Amount[r]) /\ base = books[BusinessAccount(c)].balance
    OBVIOUS
  <2> HIDE DEF c, points, base, type
  <2> QED
    BY <2>1, <2>2, <2>3, <2>4, <2>5, CountersKept
<1>4. ASSUME NEW r \in Reservations, Reverse(r), books' # books
      PROVE  Counters'
  <2> DEFINE c == Guest[r]
             base == books[BusinessAccount(c)].balance
             type == "reversed"
  <2>1. PICK points \in Reversals(Points(Amount[r]), Amount[r], Paid[r]) :
           /\ points > 0 /\ points <= base
           /\ books' = Posted(books, BusinessAccount(c), "reversed", r, -points)
    BY <1>4, ReversePosts
  <2>2. points \in Int
    BY PointsAreNatural, ReversalsAreIntegers, AmountsAssumption
  <2>3. c \in Customers /\ r \in Sources /\ base \in Nat
    BY <1>2, PeopleAssumption, AccountsExist, BalancesNotNegative DEF Sources
  <2> DEFINE less == -points
  <2>4. less \in Int /\ less <= 0 /\ base + less >= 0
    BY <2>1, <2>2, <2>3
  <2>5. /\ books' = Written(books, BusinessAccount(c), type, r, less, base)
        /\ type \in {"earned", "reversed", "adjusted", "expired"} /\ type # "earned"
    BY <1>4, <2>1 DEF Posted
  <2>6. UNCHANGED <<visit, stock, redeemed>> /\ base = books[BusinessAccount(c)].balance
    BY <1>4 DEF Reverse, rewardVars
  <2> HIDE DEF c, base, type, less
  <2> QED
    BY <2>3, <2>4, <2>5, <2>6, CountersKept
<1>5. ASSUME NEW m \in Managers, NEW c \in Customers, NEW points \in Adjustments,
             Adjust(m, c, points), books' # books
      PROVE  Counters'
  <2> DEFINE base == books[BusinessAccount(c)].balance
             type == "adjusted"
  <2>1. /\ books' = Written(books, BusinessAccount(c), type, m, points, base)
        /\ type \in {"earned", "reversed", "adjusted", "expired"}
        /\ type \notin {"earned", "reversed", "expired"}
        /\ points < 0 => base >= -points
    BY <1>5 DEF Adjust, Posted
  <2>2. m \in Sources /\ points \in Int /\ base \in Nat
    BY <1>2, AmountsAssumption, AccountsExist, BalancesNotNegative DEF Sources
  <2>3. base + points >= 0
    BY <2>1, <2>2
  <2>4. UNCHANGED <<visit, stock, redeemed>> /\ base = books[BusinessAccount(c)].balance
    BY <1>5 DEF Adjust, jobVars
  <2> HIDE DEF base, type
  <2> QED
    BY <2>1, <2>2, <2>3, <2>4, CountersKept
<1>6. ASSUME NEW s \in Sweeps, NEW r \in Reservations, SweepLine(s, r), books' # books
      PROVE  Counters'
  <2> DEFINE c == Guest[r]
             base == sweep[s].held
             taken == AtMost(Points(Amount[r]), base)
             less == -taken
             type == "expired"
  <2>1. /\ books' = Written(books, BusinessAccount(c), type, r, less, base)
        /\ type \in {"earned", "reversed", "adjusted", "expired"} /\ type # "earned"
        /\ type = "expired"
        /\ UNCHANGED <<visit, stock, redeemed>>
    BY <1>6 DEF SweepLine, jobVars, rewardVars
  <2>2. c \in Customers /\ r \in Sources /\ base \in Nat
    BY PeopleAssumption DEF Sources, LoyaltyInv, LoyaltyTypeOK, SweepsHold
  <2>3. Points(Amount[r]) \in Nat
    BY PointsAreNatural, AmountsAssumption
  <2>4. taken \in Nat /\ taken <= base
    <3> HIDE DEF base
    <3> QED BY <2>2, <2>3 DEF AtMost
  <2>5. less \in Int /\ less <= 0 /\ base + less >= 0
    <3> HIDE DEF base, taken
    <3> QED BY <2>2, <2>4
  <2> HIDE DEF c, base, taken, type, less
  <2> QED
    BY <2>1, <2>2, <2>5, CountersKept
<1>7. CASE UNCHANGED loyaltyVars
  BY <1>1, <1>7 DEF loyaltyVars, jobVars, rewardVars
<1>8. ASSUME NEW r \in Reservations,
             Complete(r) \/ Refund(r) \/ Listen(r) \/ WorkerDies(r) \/ Lapse(r)
      PROVE  Counters'
  <2>1. /\ UNCHANGED <<stock, redeemed>>
        /\ \A q \in Reservations : visit[q] = "completed" => visit'[q] = "completed"
    BY <1>2, <1>8 DEF Complete, Refund, Listen, WorkerDies, Lapse, Earn, Look, Qualify, Award,
                     Reverse, Acknowledge, rewardVars, jobVars
  <2>2. CASE books' = books
    BY <1>1, <2>1, <2>2
  <2>3. CASE Award(r)
    BY <1>1, <2>1, <2>3, AwardLeavesBusiness
  <2>4. CASE books' # books /\ ~Award(r)
    <3>1. Earn(r) \/ Reverse(r)
      BY <1>8, <2>4 DEF Complete, Refund, Listen, WorkerDies, Lapse, Look, Qualify, Acknowledge
    <3> QED
      BY <1>3, <1>4, <2>4, <3>1
  <2> QED
    BY <2>2, <2>3, <2>4
<1>9. ASSUME NEW c \in Customers, NEW m \in Managers, NEW points \in Adjustments,
             Adjust(m, c, points)
      PROVE  Counters'
  BY <1>1, <1>5, <1>9 DEF Adjust, jobVars
<1>10. ASSUME NEW s \in Sweeps,
              SweepList(s) \/ SweepAccount(s) \/ \E r \in Reservations : SweepLine(s, r)
       PROVE  Counters'
  <2>1. UNCHANGED <<visit, stock, redeemed>>
    BY <1>10 DEF SweepList, SweepAccount, SweepLine, jobVars, rewardVars
  <2>2. CASE books' = books
    BY <1>1, <2>1, <2>2
  <2>3. CASE books' # books
    BY <1>6, <1>10, <2>3 DEF SweepList, SweepAccount
  <2> QED
    BY <2>2, <2>3
<1> QED
  BY <1>7, <1>8, <1>9, <1>10, RedeemKeepsCounters DEF LoyaltyNext

\* lifetime_earned and lifetime_redeemed can be accounted for at any time: every
\* visit, grant and bonus counts once although listeners are retried, reversals
\* and expiries take nothing back from them, and stock and redemptions agree.
THEOREM CountersAreExplained == LoyaltySpec => []CountersExplained
<1>1. LoyaltyInit => Counters
  <2> SUFFICES ASSUME LoyaltyInit PROVE Counters
    OBVIOUS
  <2>1. redeemed = [c \in Customers |-> 0] /\ stock = Stock /\ Stock \in Nat /\ Bonus \in Nat
        /\ Cost \in Nat
    BY RewardAssumption DEF LoyaltyInit
  <2>2. SumOf(redeemed, Customers) = 0
    BY <2>1, PeopleAssumption, SumOfZeros
  <2>3. ASSUME NEW c \in Customers
        PROVE  Explained(books[BusinessAccount(c)], c, redeemed[c])
    <3>1. books[BusinessAccount(c)] = EmptyBook
      BY AccountsExist DEF LoyaltyInit
    <3>2. VisitsIn(EmptyBook) = {} /\ GrantsIn(EmptyBook) = {}
      BY DEF EmptyBook, VisitsIn, GrantsIn
    <3>3. Extra(EmptyBook) = 0
      <4>1. Given(EmptyBook) = 0
        BY <3>2, SumEmpty DEF Given
      <4>2. EmptyBook.earned = 0
        BY DEF EmptyBook
      <4> QED
        BY <4>1, <4>2 DEF Extra
    <3>4. NumbersBelow(EmptyBook, Stock - stock)
      BY DEF NumbersBelow, EmptyBook
    <3>5. EmptyBook.redeemed = 0
      BY DEF EmptyBook
    <3> QED
      BY <2>1, <3>1, <3>2, <3>3, <3>4, <3>5 DEF Explained
  <2> QED
    BY <2>1, <2>2, <2>3 DEF Counters
<1>2. LoyaltyInv /\ Counters /\ [LoyaltyNext]_loyaltyVars => Counters'
  BY CountersStep
<1>3. LoyaltyInv /\ Counters => CountersExplained
  <2> SUFFICES ASSUME LoyaltyInv, Counters, NEW c \in Customers, NEW a, a = BusinessAccount(c),
                      NEW visits, visits = {r \in Reservations : Listed(books, a, "earned", r)},
                      NEW grants, grants = {i \in DOMAIN books[a].lines :
                                               /\ books[a].lines[i].type = "adjusted"
                                               /\ books[a].lines[i].points > 0}
               PROVE  /\ \A r \in visits : Guest[r] = c /\ visit[r] = "completed"
                      /\ books[a].earned
                            = SumOf([r \in Reservations |-> Points(Amount[r])], visits)
                              + Bonus * redeemed[c]
                              + SumOf([i \in DOMAIN books[a].lines |-> books[a].lines[i].points],
                                      grants)
                      /\ books[a].redeemed = Cost * redeemed[c]
    BY DEF CountersExplained, Counters
  <2>1. visits = VisitsIn(books[a]) /\ grants = GrantsIn(books[a])
    BY DEF VisitsIn, GrantsIn, Listed
  <2>2. Explained(books[a], c, redeemed[c])
    BY DEF Counters
  <2>3. books[a] \in Book
    BY AccountsExist DEF LoyaltyInv, GoodBooks
  <2>4. redeemed[c] \in Nat /\ Bonus \in Nat
    BY RewardAssumption DEF LoyaltyInv, LoyaltyTypeOK
  <2>5. Bonus * redeemed[c] \in Int
    BY <2>4
  <2>6. /\ SumOf(VisitPoints, visits) \in Int /\ SumOf(PointsIn(books[a]), grants) \in Int
        /\ books[a].earned \in Int
    <3>1. books[a].earned \in Int
      BY <2>3 DEF Book
    <3> QED
      BY <2>1, <2>3, <3>1, VisitsAreFinite, SumIsInteger
  <2>7. books[a].earned - (SumOf(VisitPoints, visits) + SumOf(PointsIn(books[a]), grants))
           = Bonus * redeemed[c]
    BY <2>1, <2>2 DEF Explained, Extra, Given
  <2>8. books[a].earned = SumOf(VisitPoints, visits) + Bonus * redeemed[c]
                          + SumOf(PointsIn(books[a]), grants)
    BY <2>5, <2>6, <2>7
  <2> QED
    BY <2>1, <2>2, <2>8 DEF Explained, VisitPoints, PointsIn
<1> QED
  BY LoyaltyInvariant, <1>1, <1>2, <1>3, PTL DEF LoyaltySpec

------------------------------------------------------------------------------
(* The total of the ledger *)

TotalUntilExpiry ==
    \A a \in Accounts :
        (\A i \in DOMAIN books[a].lines : books[a].lines[i].type # "expired")
            => books[a].balance = SumOf(PointsIn(books[a]), DOMAIN books[a].lines)

\* The lines of a good book in which nothing expired add up to its balance.
LEMMA LinesAddUp ==
    ASSUME NEW b \in Book, GoodBook(b), \A i \in DOMAIN b.lines : b.lines[i].type # "expired"
    PROVE  b.balance = SumOf(PointsIn(b), DOMAIN b.lines)
<1> DEFINE last == Len(b.lines)
           F == {n \in Nat : n <= last /\ BeforeIn(b, n + 1) # SumOf(PointsIn(b), 1..n)}
<1>1. b.lines \in Seq(Line) /\ last \in Nat /\ DOMAIN b.lines = 1..last
  BY DEF Book
<1>2. \A i \in 1..last : b.lines[i].points \in Int /\ b.lines[i].after \in Int
  <2>1. \A i \in 1..last : b.lines[i] \in Line
    BY <1>1
  <2> QED
    BY <2>1 DEF Line
<1>3. F = {}
  <2>1. SUFFICES ASSUME F # {} PROVE FALSE
    OBVIOUS
  <2>2. PICK n \in F : \A m \in F : ~(<<m, n>> \in OpToRel(<, Nat))
    <3> HIDE DEF F
    <3>1. F \subseteq Nat
      BY DEF F
    <3> QED
      BY <2>1, <3>1, NatLessThanWellFounded, WFMin
  <2>3. n \in Nat /\ n <= last /\ BeforeIn(b, n + 1) # SumOf(PointsIn(b), 1..n)
    OBVIOUS
  <2>4. n # 0
    <3>1. 1..0 = {} /\ BeforeIn(b, 0 + 1) = 0
      BY DEF BeforeIn
    <3> QED
      BY <2>3, <3>1, SumEmpty
  <2> HIDE DEF last
  <2>5. BeforeIn(b, n) = SumOf(PointsIn(b), 1..(n - 1))
    <3>1. n - 1 \in Nat /\ (n - 1) + 1 = n /\ n - 1 < n /\ n - 1 <= last
      BY <1>1, <2>3, <2>4
    <3>2. <<n - 1, n>> \in OpToRel(<, Nat)
      BY <2>3, <3>1 DEF OpToRel
    <3> QED
      BY <2>2, <3>1, <3>2 DEF F
  <2> HIDE DEF F
  <2>6. /\ 1..n = 1..(n - 1) \cup {n} /\ n \notin 1..(n - 1) /\ IsFiniteSet(1..(n - 1))
        /\ n \in 1..last
    <3>1. n \in Nat /\ n # 0 /\ n <= last /\ last \in Nat
      BY <1>1, <2>3, <2>4
    <3>2. 1..n = 1..(n - 1) \cup {n} /\ n \notin 1..(n - 1) /\ n \in 1..last
      BY <3>1
    <3>3. n - 1 \in Int
      BY <3>1
    <3> QED
      BY <3>2, <3>3, FS_Interval
  <2>7. \A i \in 1..(n - 1) \cup {n} : PointsIn(b)[i] \in Int
    <3>1. \A i \in 1..n : i \in 1..last
      BY <1>1, <2>3
    <3> QED
      BY <1>1, <1>2, <2>6, <3>1 DEF PointsIn
  <2>8. SumOf(PointsIn(b), 1..n) = PointsIn(b)[n] + SumOf(PointsIn(b), 1..(n - 1))
    BY <2>6, <2>7, SumAdd
  <2>9. BeforeIn(b, n + 1) = BeforeIn(b, n) + b.lines[n].points
    BY <1>1, <2>3, <2>4, <2>6 DEF GoodBook, BeforeIn, last
  <2>10. PointsIn(b)[n] = b.lines[n].points /\ b.lines[n].points \in Int
    BY <1>1, <1>2, <2>6 DEF PointsIn
  <2>11. SumOf(PointsIn(b), 1..(n - 1)) \in Int
    BY <2>6, <2>7, SumIsInteger
  <2> QED
    BY <2>3, <2>5, <2>8, <2>9, <2>10, <2>11
<1>4. BeforeIn(b, last + 1) = SumOf(PointsIn(b), 1..last)
  BY <1>1, <1>3
<1> QED
  BY <1>1, <1>4 DEF GoodBook

\* The balance of an account in which no points have expired is the total of
\* its ledger: the sweep is the only one that breaks what
\* docs/LOYALTY_AND_REFERRAL.md:67 promises.
THEOREM BalanceTotalsUntilExpiry == LoyaltySpec => []TotalUntilExpiry
<1>1. LoyaltyInv => TotalUntilExpiry
  BY LinesAddUp DEF LoyaltyInv, GoodBooks, TotalUntilExpiry
<1> QED
  BY LoyaltyInvariant, <1>1, PTL

------------------------------------------------------------------------------
(* What a job leaves of the referral *)

\* A job that has looked at the referral of its customer leaves it registered
\* only beside a second completed visit.
Looked ==
    /\ \A c \in Customers : Referrer[c] # Nobody => referral[c] # "none"
    /\ \A r \in Reservations :
          /\ job[r].at = "award" => referral[Guest[r]] \in {"qualified", "rewarded"}
          /\ job[r].at \in {"ack", "done"} /\ referral[Guest[r]] = "registered" =>
                \E q \in Reservations \ {r} : Guest[q] = Guest[r] /\ visit[q] = "completed"

\* When the job of a visit is done and no other job of the customer is at work
\* on the referral, it is rewarded, or lost in one of the two ways.
ReferralDecided ==
    \A r \in Reservations :
        /\ Referrer[Guest[r]] # Nobody /\ job[r].at = "done"
        /\ {"qualify", "award"} \cap JobsOf(Guest[r]) = {}
        => referral[Guest[r]] = "rewarded" \/ Stranded(Guest[r]) \/ Missed(Guest[r])

LEMMA StepLooked ==
    ASSUME LoyaltyInv, Looked, [LoyaltyNext]_loyaltyVars
    PROVE  Looked'
<1>1. /\ job \in [Reservations -> JobState] /\ visit \in [Reservations -> {"open", "completed"}]
      /\ referral \in [Customers -> {"none", "registered", "qualified", "rewarded"}]
      /\ \A r \in Reservations : Guest[r] \in Customers
  BY PeopleAssumption DEF LoyaltyInv, LoyaltyTypeOK
<1>2. CASE UNCHANGED <<job, visit, referral>>
  BY <1>2 DEF Looked
<1>3. ASSUME NEW r \in Reservations, NEW j, job' = [job EXCEPT ![r] = j],
             j.at \notin {"award", "ack", "done"},
             UNCHANGED referral, \A q \in Reservations : visit[q] = "completed" => visit'[q] = "completed"
      PROVE  Looked'
  BY <1>1, <1>3 DEF Looked
<1>4. ASSUME NEW r \in Reservations, Complete(r)
      PROVE  Looked'
  <2>1. /\ job' = [job EXCEPT ![r] = [job[r] EXCEPT !.at = "earn"]]
        /\ [job[r] EXCEPT !.at = "earn"].at = "earn"
    BY <1>1, <1>4 DEF Complete, JobState
  <2>2. /\ UNCHANGED referral
        /\ \A q \in Reservations : visit[q] = "completed" => visit'[q] = "completed"
    BY <1>1, <1>4 DEF Complete
  <2> QED
    BY <1>3, <2>1, <2>2
<1>5. ASSUME NEW r \in Reservations, Earn(r)
      PROVE  Looked'
  <2>1. /\ job' = [job EXCEPT ![r] = [job[r] EXCEPT !.at = "look"]]
        /\ [job[r] EXCEPT !.at = "look"].at = "look" /\ UNCHANGED <<referral, visit>>
    BY <1>1, <1>5 DEF Earn, JobState
  <2> QED
    BY <1>3, <2>1
<1>6. ASSUME NEW r \in Reservations, Look(r)
      PROVE  Looked'
  <2>1. UNCHANGED <<referral, visit>> /\ \A q \in Reservations \ {r} : job'[q] = job[q]
    BY <1>1, <1>6 DEF Look
  <2>2. \/ job'[r].at = "qualify"
        \/ /\ job'[r].at = "ack"
           /\ referral[Guest[r]] = "registered" =>
                 \E q \in Reservations \ {r} : Guest[q] = Guest[r] /\ visit[q] = "completed"
    BY <1>1, <1>6 DEF Look, JobState
  <2> QED
    BY <2>1, <2>2 DEF Looked
<1>7. ASSUME NEW r \in Reservations, Qualify(r)
      PROVE  Looked'
  <2>1. /\ visit' = visit /\ \A q \in Reservations \ {r} : job'[q] = job[q]
        /\ \A c \in Customers : \/ referral'[c] = referral[c]
                                \/ referral'[c] = "qualified" /\ referral[c] = "registered"
        /\ referral'[Guest[r]] # "registered"
    BY <1>1, <1>7 DEF Qualify
  <2>2. \/ job'[r].at = "award" /\ referral'[Guest[r]] = "qualified"
        \/ job'[r].at = "ack"
    BY <1>1, <1>7 DEF Qualify, JobState
  <2> QED
    BY <1>1, <2>1, <2>2 DEF Looked
<1>8. ASSUME NEW r \in Reservations, Award(r)
      PROVE  Looked'
  <2>1. /\ visit' = visit /\ \A q \in Reservations \ {r} : job'[q] = job[q]
        /\ job[r].at = "award" /\ job'[r].at = "ack"
        /\ \A c \in Customers : \/ referral'[c] = referral[c]
                                \/ referral'[c] = "rewarded" /\ referral[c] = "qualified"
    BY <1>1, <1>8 DEF Award, JobState
  <2> QED
    BY <1>1, <2>1 DEF Looked
<1>9. ASSUME NEW r \in Reservations, Acknowledge(r)
      PROVE  Looked'
  <2>1. /\ UNCHANGED <<visit, referral>> /\ \A q \in Reservations \ {r} : job'[q] = job[q]
        /\ job'[r].at = job[r].at \/ (job[r].at = "ack" /\ job'[r].at = "done")
    BY <1>1, <1>9 DEF Acknowledge, JobState
  <2> QED
    BY <2>1 DEF Looked
<1>10. ASSUME NEW r \in Reservations, WorkerDies(r)
       PROVE  Looked'
  <2>1. UNCHANGED <<visit, referral>>
    BY <1>10 DEF WorkerDies
  <2>2. CASE job' = job
    BY <1>2, <2>1, <2>2
  <2>3. CASE job' = [job EXCEPT ![r] = Retried(job[r], "earn")]
    <3>1. Retried(job[r], "earn").at \notin {"award", "ack", "done"}
      BY DEF Retried
    <3> QED
      BY <1>3, <2>1, <2>3, <3>1
  <2> QED
    BY <1>10, <2>2, <2>3 DEF WorkerDies
<1> QED
  BY <1>2, <1>4, <1>5, <1>6, <1>7, <1>8, <1>9, <1>10
     DEF LoyaltyNext, Listen, Refund, Reverse, Lapse, Redeem, Adjust, SweepList, SweepAccount,
         SweepLine, jobVars, loyaltyVars

\* ReferralService: every listener that finishes leaves the referral rewarded, in
\* the hands of another job of the same customer, or lost to a crash between
\* qualifying and rewarding or to two visits completed together: there is no
\* third way to lose it.
THEOREM ReferralsAreDecided == LoyaltySpec => []ReferralDecided
<1>1. LoyaltyInit => Looked
  BY DEF LoyaltyInit, Looked
<1>2. LoyaltyInv /\ Looked /\ [LoyaltyNext]_loyaltyVars => Looked'
  BY StepLooked
<1>3. LoyaltyInv /\ Looked => ReferralDecided
  <2> SUFFICES ASSUME LoyaltyInv, Looked, NEW r \in Reservations,
                      Referrer[Guest[r]] # Nobody, job[r].at = "done",
                      {"qualify", "award"} \cap JobsOf(Guest[r]) = {}
               PROVE  \/ referral[Guest[r]] = "rewarded"
                      \/ Stranded(Guest[r]) \/ Missed(Guest[r])
    BY DEF ReferralDecided
  <2>1. /\ Guest[r] \in Customers /\ visit[r] = "completed"
        /\ referral[Guest[r]] \in {"registered", "qualified", "rewarded"}
    BY PeopleAssumption DEF LoyaltyInv, LoyaltyTypeOK, JobsInOrder, Looked
  <2>2. CASE referral[Guest[r]] = "qualified"
    BY <2>2 DEF Stranded
  <2>3. CASE referral[Guest[r]] = "registered"
    <3>1. PICK q \in Reservations \ {r} : Guest[q] = Guest[r] /\ visit[q] = "completed"
      BY <2>3 DEF Looked
    <3> QED
      BY <2>1, <2>3, <3>1 DEF Missed
  <2> QED
    BY <2>1, <2>2, <2>3
<1> QED
  BY LoyaltyInvariant, <1>1, <1>2, <1>3, PTL DEF LoyaltySpec
==============================================================================
