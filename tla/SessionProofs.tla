--------------------------- MODULE SessionProofs ----------------------------
(***************************************************************************)
(* The user store and the tokens for any number of callers, names and        *)
(* identifiers, any resolution of the clock and any timeouts.               *)
(***************************************************************************)
EXTENDS Session, Integers, TLAPS

LEMMA Constants ==
  /\ PerSecond \in Nat \ {0}
  /\ MaxTime \in Nat /\ MaxCalls \in Nat
  /\ None \notin Uids /\ None \notin Callers /\ None \notin Usernames /\ None \notin Users
  BY SessionAssumption

LEMMA Timeouts ==
  ASSUME NEW kind \in Kinds
  PROVE  Validity(kind) \in Nat
  BY SessionAssumption DEF Validity

-----------------------------------------------------------------------------
(* Whole seconds: Trunc rounds down, by less than a second.                  *)

LEMMA Remainder == ASSUME NEW t \in Nat PROVE t % PerSecond \in 0 .. (PerSecond - 1)
  BY Constants

LEMMA Division ==
  ASSUME NEW t \in Nat
  PROVE  t = PerSecond * (t \div PerSecond) + (t % PerSecond) /\ t \div PerSecond \in Nat
  BY Constants

LEMMA TruncRange ==
  ASSUME NEW t \in Nat
  PROVE  Trunc(t) \in Nat /\ Trunc(t) <= t /\ t < Trunc(t) + PerSecond
  BY Constants, Remainder, Division DEF Trunc

-----------------------------------------------------------------------------
IInv == TypeOK /\ NameLeadsToUser /\ NotLongerThanConfigured /\ Hands

Records == [at : Points, op : Ops, name : Usernames \cup {None},
            uid : Uids \cup {None}, kind : Kinds, exp : Nat,
            iat : Times, todo : SUBSET Usernames]

USE Constants DEF Points, Ops, Kinds

LEMMA InitIInv == Init => IInv
<1> SUFFICES ASSUME Init PROVE IInv
  OBVIOUS
<1>1. TypeOK
  <2>1. index \in [Usernames -> Uids \cup {None}] /\ data \in [Uids -> Users \cup {None}]
    BY DEF Init, Users
  <2>2. 0 \in Times
    BY DEF Times
  <2>3. Idle \in Records
    BY <2>2 DEF Idle, Records
  <2>4. call \in [Callers -> Records]
    BY <2>3 DEF Init
  <2>5. now \in Times /\ disabled = {} /\ tokens = {} /\ calls = 0 /\ crashed = FALSE
    BY <2>2 DEF Init
  <2>6. calls \in 0 .. MaxCalls
    BY <2>5
  <2> QED  BY <2>1, <2>4, <2>5, <2>6 DEF TypeOK, Records
<1>2. NameLeadsToUser
  BY DEF Init, NameLeadsToUser, Users
<1>3. NotLongerThanConfigured
  BY DEF Init, NotLongerThanConfigured
<1>4. Hands
  BY DEF Init, Hands, Idle
<1> QED  BY <1>1, <1>2, <1>3, <1>4 DEF IInv

(* A call that goes on where it has nothing to store and no expiry in hand.  *)
LEMMA CallMoves ==
  ASSUME IInv, NEW c \in Callers, NEW r \in Records,
         call' = [call EXCEPT ![c] = r],
         call[c].at # "store", r.at # "store",
         r.at \in {"find", "load", "check", "index"} => r.name # None,
         r.at \in {"load", "exp", "byId"} => r.uid # None,
         r.at \notin {"iat", "nbf"},
         UNCHANGED <<now, index, data, tokens>>
  PROVE  NameLeadsToUser' /\ NotLongerThanConfigured' /\ Hands'
<1>1. call \in [Callers -> Records]
  BY DEF IInv, TypeOK, Records
<1>2. NameLeadsToUser'
  BY <1>1 DEF IInv, NameLeadsToUser
<1>3. NotLongerThanConfigured'
  BY DEF IInv, NotLongerThanConfigured
<1>4. Hands'
  BY <1>1 DEF IInv, Hands
<1> QED  BY <1>2, <1>3, <1>4

LEMMA CallTyped ==
  ASSUME IInv, NEW c \in Callers, NEW r \in Records,
         call' = [call EXCEPT ![c] = r], calls' \in 0 .. MaxCalls,
         UNCHANGED <<now, index, data, disabled>>,
         tokens' \subseteq Tokens, crashed' \in BOOLEAN
  PROVE  TypeOK'
  BY DEF IInv, TypeOK, Records

LEMMA IdleTyped == Idle \in Records
  BY DEF Idle, Records, Times

LEMMA IdleFree == Idle.at = "idle"
  BY DEF Idle

(* A record stays one when a field of it changes.                            *)
LEMMA Update ==
  ASSUME NEW r \in Records, NEW at \in Points
  PROVE  /\ [r EXCEPT !.at = at] \in Records
         /\ [r EXCEPT !.at = at].at = at
         /\ [r EXCEPT !.at = at].name = r.name
         /\ [r EXCEPT !.at = at].uid = r.uid
  BY DEF Records

LEMMA Named ==
  ASSUME NEW op \in Ops, NEW n \in Usernames
  PROVE  /\ [Idle EXCEPT !.at = "find", !.op = op, !.name = n] \in Records
         /\ [Idle EXCEPT !.at = "find", !.op = op, !.name = n].at = "find"
         /\ [Idle EXCEPT !.at = "find", !.op = op, !.name = n].name = n
  BY IdleTyped DEF Idle, Records

LEMMA OfUser ==
  ASSUME NEW op \in Ops, NEW u \in Uids
  PROVE  /\ [Idle EXCEPT !.at = "byId", !.op = op, !.uid = u] \in Records
         /\ [Idle EXCEPT !.at = "byId", !.op = op, !.uid = u].at = "byId"
         /\ [Idle EXCEPT !.at = "byId", !.op = op, !.uid = u].uid = u
  BY IdleTyped DEF Idle, Records

LEMMA Emptying ==
  ASSUME NEW S \in SUBSET Usernames
  PROVE  /\ [Idle EXCEPT !.at = "clear", !.todo = S] \in Records
         /\ [Idle EXCEPT !.at = "clear", !.todo = S].at = "clear"
  BY IdleTyped DEF Idle, Records

(* A call begins, or goes on where CallMoves says it may.                    *)
LEMMA Begins ==
  ASSUME IInv, crashed' = crashed, NEW c \in Callers, NEW r \in Records, Begin(c, r),
         r.at \in {"find", "byId", "clear"},
         r.at = "find" => r.name # None,
         r.at = "byId" => r.uid # None
  PROVE  IInv'
<1>1. TypeOK'
  <2>1. calls' \in 0 .. MaxCalls
    BY DEF Begin, IInv, TypeOK
  <2>2. tokens' \subseteq Tokens /\ crashed' \in BOOLEAN
    BY DEF Begin, IInv, TypeOK
  <2> QED  BY <2>1, <2>2, CallTyped DEF Begin
<1>2. NameLeadsToUser' /\ NotLongerThanConfigured' /\ Hands'
  BY CallMoves DEF Begin
<1> QED  BY <1>1, <1>2 DEF IInv

LEMMA GoesOn ==
  ASSUME IInv, crashed' = crashed, NEW c \in Callers, NEW r \in Records, NEW at,
         Moves(c, at, r), at # "store", UNCHANGED <<index, data, tokens>>,
         r.at \in {"idle", "load", "check", "index", "exp"},
         r.at \in {"load", "check", "index"} => r.name # None,
         r.at \in {"load", "exp"} => r.uid # None
  PROVE  IInv'
<1>1. TypeOK'
  <2>1. calls' \in 0 .. MaxCalls /\ tokens' \subseteq Tokens /\ crashed' \in BOOLEAN
    BY DEF Moves, IInv, TypeOK
  <2> QED  BY <2>1, CallTyped DEF Moves
<1>2. NameLeadsToUser' /\ NotLongerThanConfigured' /\ Hands'
  BY CallMoves DEF Moves
<1> QED  BY <1>1, <1>2 DEF IInv

LEMMA BeginSteps ==
  ASSUME IInv, crashed' = crashed, NEW c \in Callers,
         \/ \E n \in Usernames : Signup(c, n) \/ Login(c, n)
         \/ \E t \in tokens : Refresh(c, t)
         \/ Clear(c)
  PROVE  IInv'
<1>1. ASSUME NEW n \in Usernames, NEW op \in {"signup", "login"},
             Begin(c, [Idle EXCEPT !.at = "find", !.op = op, !.name = n])
      PROVE  IInv'
  <2> DEFINE r == [Idle EXCEPT !.at = "find", !.op = op, !.name = n]
  <2>0. op \in Ops /\ n # None
    OBVIOUS
  <2>1. r \in Records /\ r.at = "find" /\ r.name # None
    <3>1. r \in Records /\ r.at = "find" /\ r.name = n
      BY ONLY <2>0, Named
    <3> QED  BY <2>0, <3>1
  <2>2. Begin(c, r)
    BY <1>1
  <2> HIDE DEF r
  <2> QED  BY <2>1, <2>2, Begins
<1>2. ASSUME NEW t \in tokens, Refresh(c, t) PROVE IInv'
  <2> DEFINE r == [Idle EXCEPT !.at = "byId", !.op = "refresh", !.uid = t.uid]
  <2>1. t.uid \in Uids
    BY DEF IInv, TypeOK, Tokens
  <2>2. r \in Records /\ r.at = "byId" /\ r.uid # None
    BY <2>1, OfUser
  <2>3. Begin(c, r)
    BY <1>2 DEF Refresh
  <2> HIDE DEF r
  <2> QED  BY <2>2, <2>3, Begins
<1>3. ASSUME Clear(c) PROVE IInv'
  <2> DEFINE S == {n \in Usernames : index[n] # None}
             r == [Idle EXCEPT !.at = "clear", !.todo = S]
  <2>1. S \in SUBSET Usernames
    OBVIOUS
  <2>2. r \in Records /\ r.at = "clear"
    <3> HIDE DEF S
    <3> QED  BY <2>1, Emptying
  <2>3. Begin(c, r)
    BY <1>3 DEF Clear
  <2> HIDE DEF r
  <2> QED  BY <2>2, <2>3, Begins
<1> QED  BY <1>1, <1>2, <1>3 DEF Signup, Login

(* The steps of a call that read the store.                                 *)
LEMMA ReadSteps ==
  ASSUME IInv, crashed' = crashed, NEW c \in Callers,
         FindUser(c) \/ LoadUser(c) \/ CheckName(c) \/ LoadById(c) \/ ClearEnds(c)
  PROVE  IInv'
<1> DEFINE r == call[c]
<1>1. /\ r \in Records
      /\ r.at \in {"find", "load", "check"} => r.name # None
      /\ r.at \in {"load", "byId"} => r.uid # None
  BY DEF IInv, TypeOK, Records, Hands
<1> HIDE DEF r
<1>2. CASE FindUser(c)
  <2> DEFINE u == index[r.name]
             found == [r EXCEPT !.at = "load", !.uid = u]
             new == [r EXCEPT !.at = "check"]
             s == CASE u # None -> found
                    [] u = None /\ r.op = "signup" -> new
                    [] OTHER -> Idle
  <2>1. r.at = "find" /\ Moves(c, "find", s) /\ UNCHANGED <<index, data, tokens>>
    BY <1>2 DEF FindUser, Moves, r
  <2>2. r.name \in Usernames /\ r.name # None
    BY <2>1, <1>1 DEF Records
  <2>3. u \in Uids \cup {None}
    BY <2>2 DEF IInv, TypeOK
  <2>4. found \in Records /\ found.at = "load" /\ found.name # None /\ found.uid = u
    <3> HIDE DEF u
    <3>1. r \in Records /\ "load" \in Points
      BY <1>1
    <3>2. /\ found \in Records /\ found.at = "load"
          /\ found.name = r.name /\ found.uid = u
      BY ONLY <3>1, <2>3 DEF Records
    <3> QED  BY <2>2, <3>2
  <2>5. new \in Records /\ new.at = "check" /\ new.name # None
    BY <1>1, <2>2, Update
  <2>6. s = Idle \/ s = new \/ (s = found /\ u # None)
    OBVIOUS
  <2> HIDE DEF s, found, new, u
  <2> QED  BY <2>1, <2>4, <2>5, <2>6, IdleTyped, IdleFree, GoesOn
<1>3. CASE LoadUser(c)
  <2> DEFINE gone == [r EXCEPT !.at = "check", !.uid = None]
             signs == [r EXCEPT !.at = "exp"]
             s == CASE r.op = "signup" /\ data[r.uid] = None -> gone
                    [] r.op = "login" /\ Verified(c, r.uid) /\ r.uid \notin disabled -> signs
                    [] OTHER -> Idle
  <2>1. r.at = "load" /\ Moves(c, "load", s) /\ UNCHANGED <<index, data, tokens>>
    BY <1>3 DEF LoadUser, Moves, r
  <2>2. gone \in Records /\ gone.at = "check" /\ gone.name # None
    <3>1. r \in Records /\ "check" \in Points /\ r.name # None
      BY <1>1, <2>1
    <3>2. gone \in Records /\ gone.at = "check" /\ gone.name = r.name
      BY ONLY <3>1 DEF Records
    <3> QED  BY <3>1, <3>2
  <2>3. signs \in Records /\ signs.at = "exp" /\ signs.uid # None
    BY <1>1, <2>1, Update
  <2>4. s = Idle \/ s = gone \/ s = signs
    OBVIOUS
  <2> HIDE DEF s, gone, signs
  <2> QED  BY <2>1, <2>2, <2>3, <2>4, IdleTyped, IdleFree, GoesOn
<1>4. CASE CheckName(c)
  <2> DEFINE free == [r EXCEPT !.at = "index"]
             s == IF index[r.name] # None THEN Idle ELSE free
  <2>1. r.at = "check" /\ Moves(c, "check", s) /\ UNCHANGED <<index, data, tokens>>
    BY <1>4 DEF CheckName, Moves, r
  <2>2. free \in Records /\ free.at = "index" /\ free.name # None
    BY <1>1, <2>1, Update
  <2>3. s = Idle \/ s = free
    OBVIOUS
  <2> HIDE DEF s, free
  <2> QED  BY <2>1, <2>2, <2>3, IdleTyped, IdleFree, GoesOn
<1>5. CASE LoadById(c)
  <2> DEFINE signs == [r EXCEPT !.at = "exp"]
             s == IF data[r.uid] = None THEN Idle ELSE signs
  <2>1. r.at = "byId" /\ Moves(c, "byId", s) /\ UNCHANGED <<index, data, tokens>>
    BY <1>5 DEF LoadById, Moves, r
  <2>2. signs \in Records /\ signs.at = "exp" /\ signs.uid # None
    BY <1>1, <2>1, Update
  <2>3. s = Idle \/ s = signs
    OBVIOUS
  <2> HIDE DEF s, signs
  <2> QED  BY <2>1, <2>2, <2>3, IdleTyped, IdleFree, GoesOn
<1>6. CASE ClearEnds(c)
  BY <1>6, IdleTyped, IdleFree, GoesOn DEF ClearEnds
<1> QED  BY <1>2, <1>3, <1>4, <1>5, <1>6

(* The signing of a token: the expiry is counted from the first reading, and *)
(* the clock has not gone back when iat is read.                            *)
LEMMA StampExpStep ==
  ASSUME IInv, crashed' = crashed, NEW c \in Callers, StampExp(c)
  PROVE  IInv'
<1> DEFINE r == call[c]
           e == Trunc(now + Validity(r.kind))
           s == [r EXCEPT !.at = "iat", !.exp = e]
<1>1. /\ call \in [Callers -> Records] /\ r \in Records /\ r.at = "exp"
      /\ r.uid # None /\ r.kind \in Kinds
  <2>1. call \in [Callers -> Records] /\ r \in Records /\ r.at = "exp"
    BY DEF StampExp, Moves, IInv, TypeOK, Records
  <2> QED  BY <2>1 DEF IInv, Hands, Records
<1>2. call' = [call EXCEPT ![c] = s]
      /\ UNCHANGED <<now, index, data, disabled, tokens, calls>>
  BY DEF StampExp, Moves
<1>3. now \in Nat
  BY DEF IInv, TypeOK, Times
<1>4. e \in Nat /\ e <= now + Validity(r.kind)
  <2>1. now + Validity(r.kind) \in Nat
    BY <1>1, <1>3, Timeouts
  <2> QED  BY <2>1, TruncRange
<1> HIDE DEF e
<1>5. /\ s \in Records /\ s.at = "iat" /\ s.exp = e
      /\ s.kind = r.kind /\ s.uid = r.uid
  BY <1>1, <1>4 DEF Records
<1> HIDE DEF s
<1>6. TypeOK'
  <2>1. calls' \in 0 .. MaxCalls /\ tokens' \subseteq Tokens /\ crashed' \in BOOLEAN
    BY <1>2 DEF IInv, TypeOK
  <2> QED  BY <1>2, <1>5, <2>1, CallTyped
<1>7. NameLeadsToUser'
  BY <1>1, <1>2 DEF IInv, NameLeadsToUser
<1>8. NotLongerThanConfigured'
  BY <1>2 DEF IInv, NotLongerThanConfigured
<1>9. Hands'
  BY <1>1, <1>2, <1>4, <1>5 DEF IInv, Hands
<1> QED  BY <1>6, <1>7, <1>8, <1>9 DEF IInv

LEMMA StampIatStep ==
  ASSUME IInv, crashed' = crashed, NEW c \in Callers, StampIat(c)
  PROVE  IInv'
<1> DEFINE r == call[c]
           i == Trunc(now)
           s == [r EXCEPT !.at = "nbf", !.iat = i]
<1>1. /\ call \in [Callers -> Records] /\ r \in Records /\ r.at = "iat"
      /\ r.uid # None /\ r.exp <= now + Validity(r.kind)
  <2>1. call \in [Callers -> Records] /\ r \in Records /\ r.at = "iat"
    BY DEF StampIat, Moves, IInv, TypeOK, Records
  <2> QED  BY <2>1 DEF IInv, Hands
<1>2. call' = [call EXCEPT ![c] = s]
      /\ UNCHANGED <<now, index, data, disabled, tokens, calls>>
  BY DEF StampIat, Moves
<1>3. i \in Times
  BY TruncRange DEF IInv, TypeOK, Times
<1>4. /\ s \in Records /\ s.at = "nbf" /\ s.exp = r.exp /\ s.iat = i
      /\ s.kind = r.kind /\ s.uid = r.uid
  <2> HIDE DEF i
  <2> QED  BY <1>1, <1>3 DEF Records
<1>5. s.exp < s.iat + Validity(s.kind) + PerSecond
  <2>1. now \in Nat /\ Validity(r.kind) \in Nat /\ r.exp \in Nat
    BY <1>1, Timeouts DEF IInv, TypeOK, Times, Records
  <2>2. i \in Nat /\ now < i + PerSecond
    BY <2>1, TruncRange
  <2> HIDE DEF r, s, i
  <2> QED  BY <1>1, <1>4, <2>1, <2>2, Constants
<1> HIDE DEF s, i
<1>6. TypeOK'
  <2>1. calls' \in 0 .. MaxCalls /\ tokens' \subseteq Tokens /\ crashed' \in BOOLEAN
    BY <1>2 DEF IInv, TypeOK
  <2> QED  BY <1>2, <1>4, <2>1, CallTyped
<1>7. NameLeadsToUser'
  BY <1>1, <1>2 DEF IInv, NameLeadsToUser
<1>8. NotLongerThanConfigured'
  BY <1>2 DEF IInv, NotLongerThanConfigured
<1>9. Hands'
  BY <1>1, <1>2, <1>4, <1>5 DEF IInv, Hands
<1> QED  BY <1>6, <1>7, <1>8, <1>9 DEF IInv

LEMMA StampNbfStep ==
  ASSUME IInv, crashed' = crashed, NEW c \in Callers, StampNbf(c)
  PROVE  IInv'
<1> DEFINE r == call[c]
           t == [uid |-> r.uid, kind |-> r.kind, exp |-> r.exp, iat |-> r.iat,
                 nbf |-> Trunc(now)]
           second == [r EXCEPT !.at = "exp", !.kind = "refresh"]
           s == IF r.op = "login" /\ r.kind = "access" THEN second ELSE Idle
<1>1. /\ call \in [Callers -> Records] /\ r \in Records /\ r.at = "nbf"
      /\ r.uid # None /\ r.exp < r.iat + Validity(r.kind) + PerSecond
  <2>1. call \in [Callers -> Records] /\ r \in Records /\ r.at = "nbf"
    BY DEF StampNbf, Moves, IInv, TypeOK, Records
  <2> QED  BY <2>1 DEF IInv, Hands
<1>2. call' = [call EXCEPT ![c] = s] /\ tokens' = tokens \cup {t}
      /\ UNCHANGED <<now, index, data, disabled, calls>>
  BY DEF StampNbf, Moves
<1>3. /\ s \in Records /\ s.at \in {"exp", "idle"}
      /\ s.at = "exp" => s.uid # None
  <2>1. second \in Records /\ second.at = "exp" /\ second.uid = r.uid
    BY <1>1 DEF Records
  <2> HIDE DEF second
  <2> QED  BY <1>1, <2>1, IdleTyped, IdleFree
<1>4. t \in Tokens
  <2>1. Trunc(now) \in Times
    BY TruncRange DEF IInv, TypeOK, Times
  <2> QED  BY <1>1, <2>1 DEF Tokens, Records
<1>5. t.exp < t.iat + Validity(t.kind) + PerSecond
  BY <1>1
<1> HIDE DEF s, t
<1>6. TypeOK'
  <2>1. calls' \in 0 .. MaxCalls /\ tokens' \subseteq Tokens /\ crashed' \in BOOLEAN
    BY <1>2, <1>4 DEF IInv, TypeOK
  <2> QED  BY <1>2, <1>3, <2>1, CallTyped
<1>7. NameLeadsToUser'
  BY <1>1, <1>2 DEF IInv, NameLeadsToUser
<1>8. NotLongerThanConfigured'
  BY <1>2, <1>5 DEF IInv, NotLongerThanConfigured, Validity
<1>9. Hands'
  BY <1>1, <1>2, <1>3 DEF IInv, Hands
<1> QED  BY <1>6, <1>7, <1>8, <1>9 DEF IInv

(* CreateUser's two writes: the identifier is fresh, so that the name leads  *)
(* to this signup until its user is stored, and to that user from then on.   *)
LEMMA WriteIndexStep ==
  ASSUME IInv, crashed' = crashed, NEW c \in Callers, WriteIndex(c)
  PROVE  IInv'
<1> DEFINE r == call[c]
<1>1. /\ call \in [Callers -> Records] /\ r \in Records /\ r.at = "index"
      /\ r.name \in Usernames
  <2>1. call \in [Callers -> Records] /\ r \in Records /\ r.at = "index"
    BY DEF WriteIndex, Moves, IInv, TypeOK, Records
  <2>2. r.name # None
    BY <2>1 DEF IInv, Hands
  <2> QED  BY <2>1, <2>2 DEF Records
<1>2. PICK u \in Uids \ Taken :
        /\ call' = [call EXCEPT ![c] = [r EXCEPT !.at = "store", !.uid = u]]
        /\ index' = [index EXCEPT ![r.name] = u]
        /\ UNCHANGED <<now, data, disabled, tokens, calls>>
  BY DEF WriteIndex, Moves
<1> DEFINE s == [r EXCEPT !.at = "store", !.uid = u]
<1>3. data[u] = None /\ \A d \in Callers : call[d].uid # u
  BY DEF Taken
<1>4. s \in Records /\ s.at = "store" /\ s.uid = u /\ s.name = r.name
  BY <1>1 DEF Records
<1>5. call' = [call EXCEPT ![c] = s]
  BY <1>2
<1> HIDE DEF s
<1>6. index \in [Usernames -> Uids \cup {None}]
  BY DEF IInv, TypeOK
<1>7. TypeOK'
  <2>1. call' \in [Callers -> Records]
    BY <1>1, <1>4, <1>5
  <2>2. index' \in [Usernames -> Uids \cup {None}]
    BY <1>1, <1>2, <1>6
  <2> QED  BY <1>2, <2>1, <2>2 DEF IInv, TypeOK, Records
<1>8. NameLeadsToUser'
  <2> SUFFICES ASSUME NEW n \in Usernames, index'[n] # None
               PROVE  \/ data[index'[n]] # None /\ data[index'[n]].name = n
                      \/ \E d \in Callers : /\ call'[d].at = "store"
                                            /\ call'[d].uid = index'[n]
                                            /\ call'[d].name = n
    BY <1>2 DEF NameLeadsToUser
  <2>1. CASE n = r.name
    <3>1. index'[n] = u
      BY <2>1, <1>2, <1>6
    <3>2. call'[c].at = "store" /\ call'[c].uid = u /\ call'[c].name = n
      BY <2>1, <1>1, <1>4, <1>5
    <3> QED  BY <3>1, <3>2
  <2>2. CASE n # r.name
    <3>1. index'[n] = index[n]
      BY <2>2, <1>1, <1>2, <1>6
    <3>2. CASE data[index[n]] # None /\ data[index[n]].name = n
      BY <3>1, <3>2
    <3>3. ASSUME NEW d \in Callers, call[d].at = "store", call[d].uid = index[n],
                 call[d].name = n
          PROVE  \E e \in Callers : /\ call'[e].at = "store"
                                    /\ call'[e].uid = index'[n]
                                    /\ call'[e].name = n
      <4>1. d # c
        BY <3>3, <1>1
      <4>2. call'[d] = call[d]
        BY <4>1, <1>1, <1>5
      <4> QED  BY <3>1, <3>3, <4>2
    <3> QED  BY <3>1, <3>2, <3>3 DEF IInv, NameLeadsToUser
  <2> QED  BY <2>1, <2>2
<1>9. NotLongerThanConfigured'
  BY <1>2 DEF IInv, NotLongerThanConfigured
<1>10. Hands'
  <2>1. \A d \in Callers \ {c} : call'[d] = call[d]
    BY <1>1, <1>5
  <2>2. call'[c] = s
    BY <1>1, <1>5
  <2> QED  BY <1>1, <1>2, <1>3, <1>4, <2>1, <2>2 DEF IInv, Hands
<1> QED  BY <1>7, <1>8, <1>9, <1>10 DEF IInv

LEMMA WriteDataStep ==
  ASSUME IInv, crashed' = crashed, NEW c \in Callers, WriteData(c)
  PROVE  IInv'
<1> DEFINE r == call[c]
           w == [name |-> r.name, password |-> c]
<1>1. /\ call \in [Callers -> Records] /\ r \in Records /\ r.at = "store"
      /\ r.name \in Usernames /\ r.uid \in Uids /\ data[r.uid] = None
  <2>1. call \in [Callers -> Records] /\ r \in Records /\ r.at = "store"
    BY DEF WriteData, Moves, IInv, TypeOK, Records
  <2>2. r.name # None /\ r.uid # None /\ data[r.uid] = None
    BY <2>1 DEF IInv, Hands
  <2> QED  BY <2>1, <2>2 DEF Records
<1>2. /\ call' = [call EXCEPT ![c] = Idle]
      /\ data' = [data EXCEPT ![r.uid] = w]
      /\ UNCHANGED <<now, index, disabled, tokens, calls>>
  BY DEF WriteData, Moves
<1>3. w \in Users /\ w # None /\ w.name = r.name
  BY <1>1 DEF Users
<1> HIDE DEF w
<1>4. /\ data \in [Uids -> Users \cup {None}] /\ data'[r.uid] = w
      /\ \A v \in Uids \ {r.uid} : data'[v] = data[v]
  BY <1>1, <1>2 DEF IInv, TypeOK
<1>5. /\ call' \in [Callers -> Records] /\ call'[c] = Idle
      /\ \A d \in Callers \ {c} : call'[d] = call[d]
  BY <1>1, <1>2, IdleTyped
<1>6. TypeOK'
  <2>1. data' \in [Uids -> Users \cup {None}]
    BY <1>1, <1>2, <1>3, <1>4
  <2>2. disabled' \subseteq {v \in Uids : data'[v] # None}
    BY <1>1, <1>2, <1>3, <1>4 DEF IInv, TypeOK
  <2> QED  BY <1>2, <1>5, <2>1, <2>2 DEF IInv, TypeOK, Records
<1>7. NameLeadsToUser'
  <2> SUFFICES ASSUME NEW n \in Usernames, index[n] # None
               PROVE  \/ data'[index[n]] # None /\ data'[index[n]].name = n
                      \/ \E d \in Callers : /\ call'[d].at = "store"
                                            /\ call'[d].uid = index[n]
                                            /\ call'[d].name = n
    BY <1>2 DEF NameLeadsToUser
  <2>1. index[n] \in Uids
    BY DEF IInv, TypeOK
  <2>2. CASE data[index[n]] # None /\ data[index[n]].name = n
    BY <2>1, <2>2, <1>1, <1>4
  <2>3. ASSUME NEW d \in Callers, call[d].at = "store", call[d].uid = index[n],
               call[d].name = n
        PROVE  \/ data'[index[n]] # None /\ data'[index[n]].name = n
               \/ \E e \in Callers : /\ call'[e].at = "store"
                                     /\ call'[e].uid = index[n]
                                     /\ call'[e].name = n
    <3>1. CASE d = c
      BY <2>3, <3>1, <1>3, <1>4
    <3>2. CASE d # c
      BY <2>3, <3>2, <1>5
    <3> QED  BY <3>1, <3>2
  <2> QED  BY <2>2, <2>3 DEF IInv, NameLeadsToUser
<1>8. NotLongerThanConfigured'
  BY <1>2 DEF IInv, NotLongerThanConfigured
<1>9. Hands'
  <2>1. \A d \in Callers \ {c} :
          call[d].at = "store" => /\ call[d].uid \in Uids
                                  /\ call[d].uid # r.uid /\ data[call[d].uid] = None
    BY <1>1 DEF IInv, Hands, Records
  <2>2. \A d \in Callers \ {c} : call[d].at = "store" => data'[call[d].uid] = None
    BY <1>4, <2>1
  <2> QED  BY <1>1, <1>2, <1>5, <2>2, IdleFree DEF IInv, Hands
<1> QED  BY <1>6, <1>7, <1>8, <1>9 DEF IInv

(* Clear, and what happens around the calls.                                *)
LEMMA ClearNameStep ==
  ASSUME IInv, crashed' = crashed, NEW c \in Callers, ClearName(c)
  PROVE  IInv'
<1> DEFINE r == call[c]
<1>1. call \in [Callers -> Records] /\ r \in Records /\ r.at = "clear"
  BY DEF ClearName, Moves, IInv, TypeOK, Records
<1>2. PICK n \in Usernames :
        /\ call' = [call EXCEPT ![c] = [r EXCEPT !.todo = r.todo \ {n}]]
        /\ index' = [index EXCEPT ![n] = None]
        /\ UNCHANGED <<now, data, disabled, tokens, calls>>
  BY DEF ClearName, Moves
<1> DEFINE s == [r EXCEPT !.todo = r.todo \ {n}]
<1>3. s \in Records /\ s.at = "clear"
  BY <1>1 DEF Records
<1>4. call' = [call EXCEPT ![c] = s]
  BY <1>2
<1> HIDE DEF s
<1>5. /\ call' \in [Callers -> Records] /\ call'[c] = s
      /\ \A d \in Callers \ {c} : call'[d] = call[d]
  BY <1>1, <1>3, <1>4
<1>6. /\ index' \in [Usernames -> Uids \cup {None}] /\ index'[n] = None
      /\ \A m \in Usernames \ {n} : index'[m] = index[m]
  BY <1>2 DEF IInv, TypeOK
<1>7. TypeOK'
  BY <1>2, <1>5, <1>6 DEF IInv, TypeOK, Records
<1>8. NameLeadsToUser'
  BY <1>1, <1>2, <1>5, <1>6 DEF IInv, NameLeadsToUser
<1>9. NotLongerThanConfigured'
  BY <1>2 DEF IInv, NotLongerThanConfigured
<1>10. Hands'
  BY <1>1, <1>2, <1>3, <1>5 DEF IInv, Hands
<1> QED  BY <1>7, <1>8, <1>9, <1>10 DEF IInv

LEMMA OutsideSteps ==
  ASSUME IInv, crashed' \in BOOLEAN, Tick \/ (\E u \in Uids : Disable(u)) \/ Crash
  PROVE  IInv'
<1>1. /\ UNCHANGED <<index, data, tokens, call, calls>>
      /\ now' \in Times /\ now \in Times
      /\ now' = now \/ now' = now + 1
      /\ disabled' \subseteq {u \in Uids : data[u] # None}
  BY DEF Tick, Disable, Crash, Store, IInv, TypeOK, Times
<1>2. TypeOK'
  BY <1>1 DEF IInv, TypeOK
<1>3. Hands'
  <2>1. ASSUME NEW c \in Callers, call[c].at = "iat"
        PROVE  call[c].exp <= now' + Validity(call[c].kind)
    <3>1. call[c].exp \in Nat /\ Validity(call[c].kind) \in Nat
      BY Timeouts DEF IInv, TypeOK
    <3>2. call[c].exp <= now + Validity(call[c].kind)
      BY <2>1 DEF IInv, Hands
    <3> QED  BY <1>1, <3>1, <3>2 DEF Times
  <2>2. \A c \in Callers : Validity(call[c].kind)' = Validity(call[c].kind)
    BY <1>1 DEF Validity
  <2> QED  BY <1>1, <2>1, <2>2 DEF IInv, Hands
<1> QED  BY <1>1, <1>2, <1>3 DEF IInv, NameLeadsToUser, NotLongerThanConfigured, Validity

LEMMA Inductive ==
  ASSUME IInv, [Next]_vars
  PROVE  IInv'
<1>1. CASE UNCHANGED vars
  BY <1>1 DEF vars, IInv, TypeOK, NameLeadsToUser, NotLongerThanConfigured, Hands,
              Validity, Trunc
<1>2. ASSUME NEW c \in Callers, Step(c), crashed' = crashed
      PROVE  IInv'
  BY <1>2, BeginSteps, ReadSteps, StampExpStep, StampIatStep, StampNbfStep,
     WriteIndexStep, WriteDataStep, ClearNameStep DEF Step
<1>3. CASE Tick \/ (\E u \in Uids : Disable(u)) \/ Crash
  <2>1. crashed' \in BOOLEAN
    BY <1>3 DEF Next, Crash, IInv, TypeOK, Tick, Disable, vars, Store
  <2> QED  BY <1>3, <2>1, OutsideSteps
<1> QED  BY <1>1, <1>2, <1>3 DEF Next

LEMMA Always == Spec => []IInv
<1>1. Init => IInv
  BY InitIInv
<1>2. IInv /\ [Next]_vars => IInv'
  BY Inductive
<1> QED  BY <1>1, <1>2, PTL DEF Spec

-----------------------------------------------------------------------------
(* The store, the tokens and the calls under way keep their shape, for any    *)
(* callers, names and identifiers.                                          *)
THEOREM TypeCorrect == Spec => []TypeOK
<1>1. IInv => TypeOK
  BY DEF IInv
<1> QED  BY <1>1, Always, PTL

(* A taken name always has its user stored, or a signup that will store it,   *)
(* however signups and Clear overlap on the two unlocked maps.              *)
THEOREM NameLeadsToUserHolds == Spec => []NameLeadsToUser
<1>1. IInv => NameLeadsToUser
  BY DEF IInv
<1> QED  BY <1>1, Always, PTL

(* However long a token is in the making, it is good for no longer than its   *)
(* kind's timeout from the second it says it was issued in.                 *)
THEOREM NotLongerThanConfiguredHolds == Spec => []NotLongerThanConfigured
<1>1. IInv => NotLongerThanConfigured
  BY DEF IInv
<1> QED  BY <1>1, Always, PTL
-----------------------------------------------------------------------------
(* What a disabled user may still get.  A login only ever looks, loads and    *)
(* signs; it has no user in hand before it has looked.                      *)
Signing == {"byId", "exp", "iat", "nbf"}

SignsOnlyLoaded ==
    \A c \in Callers :
        LET r == call[c]
        IN  /\ r.op = "login" => r.at \in {"find", "load", "exp", "iat", "nbf"}
            /\ r.at = "find" => r.uid = None

(* The call that c makes its next: one that can sign was signing before for   *)
(* the same user, or comes from a login whose user was not disabled, or from  *)
(* a token that has not expired.                                            *)
Follows(c, s) ==
    /\ s.op = "login" => s.at \in {"find", "load", "exp", "iat", "nbf"}
    /\ s.at = "find" => s.uid = None
    /\ s.at \in Signing =>
         \/ call[c].at \in Signing /\ call[c].uid = s.uid
         \/ s.uid \notin disabled
         \/ s.op # "login" /\ \E t \in tokens : t.uid = s.uid /\ t.exp >= now

LEMMA StepFollows ==
  ASSUME IInv, SignsOnlyLoaded, NEW c \in Callers, Step(c)
  PROVE  \E s \in Records : call' = [call EXCEPT ![c] = s] /\ Follows(c, s)
<1> DEFINE r == call[c]
<1>1. r \in Records
  BY DEF IInv, TypeOK, Records
<1>2. Idle \in Records /\ Follows(c, Idle)
  BY IdleTyped DEF Idle, Follows, Signing
<1>3. ASSUME NEW n \in Usernames, Signup(c, n) \/ Login(c, n)
      PROVE  \E s \in Records : call' = [call EXCEPT ![c] = s] /\ Follows(c, s)
  <2>1. PICK op \in {"signup", "login"} :
          call' = [call EXCEPT ![c] = [Idle EXCEPT !.at = "find", !.op = op, !.name = n]]
    BY <1>3 DEF Signup, Login, Begin
  <2> DEFINE s == [Idle EXCEPT !.at = "find", !.op = op, !.name = n]
  <2>2. s \in Records /\ s.at = "find" /\ s.uid = None
    BY IdleTyped DEF Idle, Records
  <2>3. Follows(c, s)
    BY <2>2 DEF Follows, Signing
  <2> QED  BY <2>1, <2>2, <2>3
<1>4. ASSUME NEW t \in tokens, Refresh(c, t)
      PROVE  \E s \in Records : call' = [call EXCEPT ![c] = s] /\ Follows(c, s)
  <2> DEFINE s == [Idle EXCEPT !.at = "byId", !.op = "refresh", !.uid = t.uid]
  <2>1. t.uid \in Uids /\ t.exp >= now
    BY <1>4 DEF Refresh, Accepts, IInv, TypeOK, Tokens
  <2>2. s \in Records /\ s.at = "byId" /\ s.op = "refresh" /\ s.uid = t.uid
    BY <2>1, IdleTyped DEF Idle, Records
  <2>3. Follows(c, s)
    BY <2>1, <2>2 DEF Follows, Signing
  <2>4. call' = [call EXCEPT ![c] = s]
    BY <1>4 DEF Refresh, Begin
  <2> QED  BY <2>2, <2>3, <2>4
<1>5. CASE Clear(c)
  <2> DEFINE named == {n \in Usernames : index[n] # None}
             s     == [Idle EXCEPT !.at = "clear", !.todo = named]
  <2>1. call' = [call EXCEPT ![c] = s] /\ named \in SUBSET Usernames
    BY <1>5 DEF Clear, Begin
  <2> HIDE DEF named
  <2>2. s \in Records /\ s.at = "clear" /\ s.op = "clear"
    BY <2>1, IdleTyped DEF Idle, Records
  <2> HIDE DEF s
  <2>3. Follows(c, s)
    BY <2>2 DEF Follows, Signing
  <2> QED  BY <2>1, <2>2, <2>3
<1>6. CASE FindUser(c)
  <2> DEFINE found == [r EXCEPT !.at = "load", !.uid = index[r.name]]
             free  == [r EXCEPT !.at = "check"]
  <2>1. r.at = "find" /\ r.name \in Usernames
    BY <1>1, <1>6 DEF FindUser, Moves, IInv, Hands, Records
  <2>2. index[r.name] \in Uids \cup {None}
    BY <2>1 DEF IInv, TypeOK
  <2>3. found \in Records /\ found.at = "load"
    BY <1>1, <2>2 DEF Records
  <2>4. free \in Records /\ free.at = "check" /\ free.op = r.op
    BY <1>1 DEF Records
  <2>5. \/ call' = [call EXCEPT ![c] = found]
        \/ call' = [call EXCEPT ![c] = free] /\ r.op = "signup"
        \/ call' = [call EXCEPT ![c] = Idle]
    BY <1>6 DEF FindUser, Moves
  <2> HIDE DEF found, free
  <2>6. Follows(c, found) /\ (r.op = "signup" => Follows(c, free))
    BY <2>3, <2>4 DEF Follows, Signing
  <2> QED  BY <1>2, <2>3, <2>4, <2>5, <2>6
<1>7. CASE LoadUser(c)
  <2> DEFINE gone == [r EXCEPT !.at = "check", !.uid = None]
             fine == [r EXCEPT !.at = "exp"]
  <2>1. gone \in Records /\ gone.at = "check" /\ gone.op = r.op
    BY <1>1 DEF Records
  <2>2. fine \in Records /\ fine.at = "exp" /\ fine.uid = r.uid
    BY <1>1 DEF Records
  <2>3. \/ call' = [call EXCEPT ![c] = gone] /\ r.op = "signup"
        \/ call' = [call EXCEPT ![c] = fine] /\ r.uid \notin disabled
        \/ call' = [call EXCEPT ![c] = Idle]
    BY <1>7 DEF LoadUser, Moves
  <2> HIDE DEF gone, fine
  <2>4. (r.op = "signup" => Follows(c, gone)) /\ (r.uid \notin disabled => Follows(c, fine))
    BY <2>1, <2>2 DEF Follows, Signing
  <2> QED  BY <1>2, <2>1, <2>2, <2>3, <2>4
<1>8. CASE CheckName(c)
  <2> DEFINE s == [r EXCEPT !.at = "index"]
  <2>1. s \in Records /\ s.at = "index" /\ s.op = r.op /\ r.at = "check"
    BY <1>1, <1>8 DEF Records, CheckName, Moves
  <2>2. Follows(c, s)
    BY <2>1 DEF Follows, Signing, SignsOnlyLoaded
  <2>3. call' = [call EXCEPT ![c] = s] \/ call' = [call EXCEPT ![c] = Idle]
    BY <1>8 DEF CheckName, Moves
  <2> QED  BY <1>2, <2>1, <2>2, <2>3
<1>9. CASE WriteIndex(c)
  <2>1. PICK u \in Uids \ Taken : Moves(c, "index", [r EXCEPT !.at = "store", !.uid = u])
    BY <1>9 DEF WriteIndex
  <2> DEFINE s == [r EXCEPT !.at = "store", !.uid = u]
  <2>2. s \in Records /\ s.at = "store" /\ s.op = r.op /\ r.at = "index"
    BY <1>1, <1>9 DEF Records, WriteIndex, Moves
  <2>3. call' = [call EXCEPT ![c] = s]
    BY <2>1 DEF Moves
  <2> HIDE DEF s
  <2>4. Follows(c, s)
    BY <2>2 DEF Follows, Signing, SignsOnlyLoaded
  <2> QED  BY <2>2, <2>3, <2>4
<1>10. CASE WriteData(c) \/ ClearEnds(c)
  BY <1>2, <1>10 DEF WriteData, ClearEnds, Moves
<1>11. CASE StampExp(c)
  <2> DEFINE e == Trunc(now + Validity(r.kind))
             s == [r EXCEPT !.at = "iat", !.exp = e]
  <2>1. e \in Nat
    <3>1. r.kind \in Kinds
      BY <1>1 DEF Records
    <3>2. Validity(r.kind) \in Nat
      BY <3>1, Timeouts
    <3>3. now + Validity(r.kind) \in Nat
      BY <3>2 DEF IInv, TypeOK, Times
    <3> QED  BY <3>3, TruncRange
  <2>2. call' = [call EXCEPT ![c] = s] /\ r.at = "exp"
    BY <1>11 DEF StampExp, Moves
  <2> HIDE DEF e
  <2>3. s \in Records /\ s.at = "iat" /\ s.uid = r.uid /\ s.op = r.op
    BY <1>1, <2>1 DEF Records
  <2> HIDE DEF s
  <2>4. Follows(c, s)
    BY <2>2, <2>3 DEF Follows, Signing
  <2> QED  BY <2>2, <2>3, <2>4
<1>12. CASE StampIat(c)
  <2> DEFINE i == Trunc(now)
             s == [r EXCEPT !.at = "nbf", !.iat = i]
  <2>1. i \in Times
    BY TruncRange DEF IInv, TypeOK, Times
  <2>2. call' = [call EXCEPT ![c] = s] /\ r.at = "iat"
    BY <1>12 DEF StampIat, Moves
  <2> HIDE DEF i
  <2>3. s \in Records /\ s.at = "nbf" /\ s.uid = r.uid /\ s.op = r.op
    BY <1>1, <2>1 DEF Records
  <2> HIDE DEF s
  <2>4. Follows(c, s)
    BY <2>2, <2>3 DEF Follows, Signing
  <2> QED  BY <2>2, <2>3, <2>4
<1>13. CASE StampNbf(c)
  <2> DEFINE s == [r EXCEPT !.at = "exp", !.kind = "refresh"]
  <2>1. s \in Records /\ s.at = "exp" /\ s.uid = r.uid /\ r.at = "nbf"
    BY <1>1, <1>13 DEF Records, StampNbf, Moves
  <2>2. Follows(c, s)
    BY <2>1 DEF Follows, Signing
  <2>3. call' = [call EXCEPT ![c] = s] \/ call' = [call EXCEPT ![c] = Idle]
    BY <1>13 DEF StampNbf, Moves
  <2> QED  BY <1>2, <2>1, <2>2, <2>3
<1>14. CASE LoadById(c)
  <2> DEFINE s == [r EXCEPT !.at = "exp"]
  <2>1. s \in Records /\ s.at = "exp" /\ s.uid = r.uid /\ s.op = r.op /\ r.at = "byId"
    BY <1>1, <1>14 DEF Records, LoadById, Moves
  <2>2. Follows(c, s)
    BY <2>1 DEF Follows, Signing
  <2>3. call' = [call EXCEPT ![c] = s] \/ call' = [call EXCEPT ![c] = Idle]
    BY <1>14 DEF LoadById, Moves
  <2> QED  BY <1>2, <2>1, <2>2, <2>3
<1>15. CASE ClearName(c)
  <2>1. PICK n \in Usernames : call' = [call EXCEPT ![c] = [r EXCEPT !.todo = r.todo \ {n}]]
    BY <1>15 DEF ClearName, Moves
  <2> DEFINE s == [r EXCEPT !.todo = r.todo \ {n}]
  <2>2. s \in Records /\ s.at = "clear" /\ s.op = r.op /\ r.at = "clear"
    BY <1>1, <1>15 DEF Records, ClearName, Moves
  <2>3. Follows(c, s)
    BY <2>2 DEF Follows, Signing, SignsOnlyLoaded
  <2> QED  BY <2>1, <2>2, <2>3
<1> QED  BY <1>3, <1>4, <1>5, <1>6, <1>7, <1>8, <1>9, <1>10, <1>11, <1>12, <1>13, <1>14,
            <1>15 DEF Step

(* Outside the callers' steps no call changes.                               *)
LEMMA CallsChange ==
  ASSUME IInv, SignsOnlyLoaded, [Next]_vars
  PROVE  \/ call' = call
         \/ \E c \in Callers, s \in Records : call' = [call EXCEPT ![c] = s] /\ Follows(c, s)
<1>1. CASE UNCHANGED vars \/ Tick \/ Crash \/ \E u \in Uids : Disable(u)
  BY <1>1 DEF vars, Tick, Crash, Disable
<1>2. ASSUME NEW c \in Callers, Step(c)
      PROVE  \E s \in Records : call' = [call EXCEPT ![c] = s] /\ Follows(c, s)
  BY <1>2, StepFollows
<1> QED  BY <1>1, <1>2 DEF Next

LEMMA AlwaysLoaded == Spec => []SignsOnlyLoaded
<1>1. Init => SignsOnlyLoaded
  BY DEF Init, Idle, SignsOnlyLoaded
<1>2. ASSUME IInv, SignsOnlyLoaded, [Next]_vars PROVE SignsOnlyLoaded'
  BY <1>2, CallsChange DEF IInv, TypeOK, Records, SignsOnlyLoaded, Follows
<1> QED  BY <1>1, <1>2, Always, PTL DEF Spec

LEMMA DisabledStep ==
  ASSUME IInv, SignsOnlyLoaded, [Next]_vars, NEW u \in disabled, ~UnderWay(u)
  PROVE  /\ (\A t \in tokens : t.uid = u => t.exp < now) => ~UnderWay(u)'
         /\ \A c \in Callers :
              call'[c].op = "login" /\ call'[c].uid = u => call'[c].at = "load"
<1>1. u # None /\ call \in [Callers -> Records] /\ now \in Nat /\ tokens \subseteq Tokens
  BY DEF IInv, TypeOK, Records, Times
<1>2. ASSUME NEW d \in Callers, call[d].op = "login", call[d].uid = u
      PROVE  call[d].at = "load"
  BY <1>1, <1>2 DEF SignsOnlyLoaded, UnderWay
<1>3. CASE call' = call
  BY <1>2, <1>3 DEF UnderWay
<1>4. ASSUME NEW c \in Callers, NEW s \in Records,
             call' = [call EXCEPT ![c] = s], Follows(c, s)
      PROVE  /\ (\A t \in tokens : t.uid = u => t.exp < now) => ~UnderWay(u)'
             /\ \A d \in Callers :
                  call'[d].op = "login" /\ call'[d].uid = u => call'[d].at = "load"
  <2>1. call'[c] = s /\ \A d \in Callers \ {c} : call'[d] = call[d]
    BY <1>1, <1>4
  <2>2. ~(call[c].at \in Signing /\ call[c].uid = u)
    BY DEF UnderWay, Signing
  <2>3. s.uid = u /\ s.at \in Signing =>
          s.op # "login" /\ \E t \in tokens : t.uid = u /\ t.exp >= now
    BY <1>4, <2>2 DEF Follows
  <2>4. s.op = "login" /\ s.uid = u => s.at = "load"
    BY <1>1, <1>4, <2>3 DEF Follows, Signing
  <2>5. \A t \in tokens : ~(t.exp >= now /\ t.exp < now)
    BY <1>1 DEF Tokens
  <2>6. (\A t \in tokens : t.uid = u => t.exp < now) => ~(s.uid = u /\ s.at \in Signing)
    BY <2>3, <2>5
  <2>7. UnderWay(u)' => s.uid = u /\ s.at \in Signing
    BY <2>1 DEF UnderWay, Signing
  <2> QED  BY <1>2, <2>1, <2>4, <2>6, <2>7
<1> QED  BY <1>3, <1>4, CallsChange

(* A disabled user starts no login to the end any more, and nothing of its    *)
(* kind once its last token has expired, for any number of callers, tokens   *)
(* and clock readings between.                                              *)
THEOREM DisabledRunsOutHolds == Spec => DisabledRunsOut
<1>1. IInv /\ SignsOnlyLoaded /\ [Next]_vars =>
        [\A u \in disabled : ~UnderWay(u) =>
           /\ (\A t \in tokens : t.uid = u => t.exp < now) => ~UnderWay(u)'
           /\ \A c \in Callers :
                call'[c].op = "login" /\ call'[c].uid = u => call'[c].at = "load"]_vars
  BY DisabledStep
<1> QED  BY <1>1, Always, AlwaysLoaded, PTL DEF Spec, DisabledRunsOut
=============================================================================
