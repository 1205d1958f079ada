------------------------------ MODULE Session -------------------------------
(***************************************************************************)
(* services/auth: GenericSessionService over the in-memory user store.      *)
(* Calls run on goroutines of their own (one per HTTP request or caller) and *)
(* share the two maps of the store, which no lock protects, and the clock.   *)
(*                                                                         *)
(* Time is counted in ticks, PerSecond to the second: a token keeps whole    *)
(* seconds only, and each of its three times is a reading of the clock.      *)
(***************************************************************************)
EXTENDS Naturals, FiniteSets

CONSTANTS
    Callers,     \* goroutines that make calls; a caller's password is its own
    Usernames,
    Uids,        \* identifiers uuid.New returns
    None,
    PerSecond,   \* ticks of the clock in a second
    AccessTicks, RefreshTicks,  \* TokenConfig.AccessTimeout, .RefreshTimeout
    Leeway,      \* JwtLeewayWindow
    MaxTime,     \* bound: the clock stops
    MaxCalls     \* bound: calls begun

Users == [name : Usernames, password : Callers]

(* A timeout is any duration, of whole seconds or not.                      *)
ASSUME SessionAssumption ==
    /\ PerSecond \in Nat \ {0}
    /\ {AccessTicks, RefreshTicks, Leeway, MaxTime, MaxCalls} \subseteq Nat
    /\ None \notin Uids \cup Callers \cup Usernames \cup Users

VARIABLES
    now,         \* the clock
    index,       \* _userStore.usernameIndex
    data,        \* _userStore.data
    disabled,    \* users whose DisabledAt is set
    tokens,      \* tokens that were signed
    call,        \* what each caller is doing
    calls,       \* calls begun
    crashed      \* the runtime stopped the process for concurrent map access

vars == <<now, index, data, disabled, tokens, call, calls, crashed>>

Kinds == {"access", "refresh"}
Times == 0 .. MaxTime
Tokens == [uid : Uids, kind : Kinds, exp : Nat, iat : Times, nbf : Times]

(* Idle, and each point of a call where another goroutine can run.           *)
Points == {"idle", "find", "load", "check", "index", "store",
           "exp", "iat", "nbf", "byId", "clear"}
Ops    == {"signup", "login", "refresh", "clear"}

TypeOK ==
    /\ now \in Times
    /\ index \in [Usernames -> Uids \cup {None}]
    /\ data \in [Uids -> Users \cup {None}]
    /\ disabled \subseteq {u \in Uids : data[u] # None}
    /\ tokens \subseteq Tokens
    /\ call \in [Callers -> [at : Points, op : Ops, name : Usernames \cup {None},
                             uid : Uids \cup {None}, kind : Kinds, exp : Nat,
                             iat : Times, todo : SUBSET Usernames]]
    /\ calls \in 0 .. MaxCalls
    /\ crashed \in BOOLEAN

Trunc(t) == t - (t % PerSecond)

Idle == [at |-> "idle", op |-> "clear", name |-> None, uid |-> None,
         kind |-> "access", exp |-> 0, iat |-> 0, todo |-> {}]

(* One user signed up before.                                                *)
Init ==
    /\ now = 0
    /\ \E n \in Usernames, u \in Uids, p \in Callers :
         /\ index = [m \in Usernames |-> IF m = n THEN u ELSE None]
         /\ data = [v \in Uids |-> IF v = u THEN [name |-> n, password |-> p] ELSE None]
    /\ disabled = {}
    /\ tokens = {}
    /\ call = [c \in Callers |-> Idle]
    /\ calls = 0
    /\ crashed = FALSE
-----------------------------------------------------------------------------
Store == <<index, data, disabled>>

Begin(c, r) ==
    /\ call[c].at = "idle"
    /\ calls < MaxCalls
    /\ calls' = calls + 1
    /\ call' = [call EXCEPT ![c] = r]
    /\ UNCHANGED <<now, index, data, disabled, tokens>>

(* Caller c, being at this point of its call, goes on as r.                  *)
Moves(c, at, r) ==
    /\ call[c].at = at
    /\ call' = [call EXCEPT ![c] = r]
    /\ UNCHANGED <<now, disabled, calls>>

Signup(c, n) == Begin(c, [Idle EXCEPT !.at = "find", !.op = "signup", !.name = n])

Login(c, n) == Begin(c, [Idle EXCEPT !.at = "find", !.op = "login", !.name = n])

(* GetUserWithUsername, its read of the index.                               *)
FindUser(c) ==
    LET r == call[c]
        u == index[r.name]
    IN  /\ Moves(c, "find", CASE u # None -> [r EXCEPT !.at = "load", !.uid = u]
                              [] u = None /\ r.op = "signup" -> [r EXCEPT !.at = "check"]
                              [] OTHER -> Idle)
        /\ UNCHANGED <<index, data, tokens>>

(* LoginRequest.verify, for the user that was found.                         *)
Verified(c, u) ==
    data[u] # None /\ data[u].name = call[c].name /\ data[u].password = c

(* Slip: Login does not ask whether the user is disabled.                    *)
LoadUserDisabled(c) ==
    LET r == call[c]
    IN  /\ r.at = "load" /\ r.op = "login" /\ Verified(c, r.uid)
        /\ Moves(c, "load", [r EXCEPT !.at = "exp"])
        /\ UNCHANGED <<index, data, tokens>>

(* The read of the data, and what the calls make of the user found.          *)
LoadUser(c) ==
    LET r == call[c]
    IN  /\ Moves(c, "load",
             CASE r.op = "signup" /\ data[r.uid] = None -> [r EXCEPT !.at = "check", !.uid = None]
               [] r.op = "login" /\ Verified(c, r.uid) /\ r.uid \notin disabled
                    -> [r EXCEPT !.at = "exp"]
               [] OTHER -> Idle)
        /\ UNCHANGED <<index, data, tokens>>

(* CreateUser: a look at the index, and then one write to each map.          *)
CheckName(c) ==
    LET r == call[c]
    IN  /\ Moves(c, "check", IF index[r.name] # None THEN Idle ELSE [r EXCEPT !.at = "index"])
        /\ UNCHANGED <<index, data, tokens>>

Taken == {u \in Uids : data[u] # None \/ \E c \in Callers : call[c].uid = u}

WriteIndex(c) ==
    \E u \in Uids \ Taken :
        /\ Moves(c, "index", [call[c] EXCEPT !.at = "store", !.uid = u])
        /\ index' = [index EXCEPT ![call[c].name] = u]
        /\ UNCHANGED <<data, tokens>>

(* Slip: the data is not written when another signup took the name meanwhile. *)
WriteDataIfIndexed(c) ==
    LET r == call[c]
    IN  /\ Moves(c, "store", Idle)
        /\ data' = IF \E u \in Uids : data[u] # None /\ data[u].name = r.name THEN data
                   ELSE [data EXCEPT ![r.uid] = [name |-> r.name, password |-> c]]
        /\ UNCHANGED <<index, tokens>>

WriteData(c) ==
    LET r == call[c]
    IN  /\ Moves(c, "store", Idle)
        /\ data' = [data EXCEPT ![r.uid] = [name |-> r.name, password |-> c]]
        /\ UNCHANGED <<index, tokens>>
-----------------------------------------------------------------------------
(* generateToken: three readings of the clock.  Login signs an access token  *)
(* and a refresh token, Refresh an access token only.                       *)

Validity(kind) == IF kind = "access" THEN AccessTicks ELSE RefreshTicks

StampExp(c) ==
    LET r == call[c]
    IN  /\ Moves(c, "exp", [r EXCEPT !.at = "iat", !.exp = Trunc(now + Validity(r.kind))])
        /\ UNCHANGED <<index, data, tokens>>

StampIat(c) ==
    /\ Moves(c, "iat", [call[c] EXCEPT !.at = "nbf", !.iat = Trunc(now)])
    /\ UNCHANGED <<index, data, tokens>>

(* Slip: the expiry is counted from the last reading.                        *)
StampNbfAndExp(c) ==
    LET r == call[c]
        t == [uid |-> r.uid, kind |-> r.kind, iat |-> r.iat, nbf |-> Trunc(now),
              exp |-> Trunc(now + Validity(r.kind))]
    IN  /\ Moves(c, "nbf", Idle)
        /\ tokens' = tokens \cup {t}
        /\ UNCHANGED <<index, data>>

StampNbf(c) ==
    LET r == call[c]
        t == [uid |-> r.uid, kind |-> r.kind, exp |-> r.exp, iat |-> r.iat, nbf |-> Trunc(now)]
    IN  /\ Moves(c, "nbf", IF r.op = "login" /\ r.kind = "access"
                             THEN [r EXCEPT !.at = "exp", !.kind = "refresh"] ELSE Idle)
        /\ tokens' = tokens \cup {t}
        /\ UNCHANGED <<index, data>>

(* validateToken: the jwt library allows the leeway, Claims.Validate none.   *)
Accepts(t) ==
    /\ now < t.exp + Leeway /\ t.nbf <= now + Leeway
    /\ t.exp >= now /\ t.nbf <= now /\ t.iat >= t.nbf /\ t.iat <= now

(* Verify does no more than this check.  Any token that was signed will do.  *)
Refresh(c, t) ==
    /\ Accepts(t)
    /\ Begin(c, [Idle EXCEPT !.at = "byId", !.op = "refresh", !.uid = t.uid])

LoadById(c) ==
    LET r == call[c]
    IN  /\ Moves(c, "byId", IF data[r.uid] = None THEN Idle ELSE [r EXCEPT !.at = "exp"])
        /\ UNCHANGED <<index, data, tokens>>
-----------------------------------------------------------------------------
(* Clear empties the index name by name; the range over the map may or may   *)
(* not visit what is added meanwhile.                                       *)
Clear(c) ==
    Begin(c, [Idle EXCEPT !.at = "clear", !.todo = {n \in Usernames : index[n] # None}])

ClearName(c) ==
    \E n \in Usernames :
        /\ n \in call[c].todo \/ index[n] # None
        /\ Moves(c, "clear", [call[c] EXCEPT !.todo = @ \ {n}])
        /\ index' = [index EXCEPT ![n] = None]
        /\ UNCHANGED <<data, tokens>>

ClearEnds(c) ==
    /\ call[c].todo = {}
    /\ Moves(c, "clear", Idle)
    /\ UNCHANGED <<index, data, tokens>>

(* Whoever administers the users sets DisabledAt.                            *)
Disable(u) ==
    /\ data[u] # None
    /\ disabled' = disabled \cup {u}
    /\ UNCHANGED <<now, index, data, tokens, call, calls>>

Tick == now < MaxTime /\ now' = now + 1 /\ UNCHANGED <<Store, tokens, call, calls>>

(* Two goroutines in a map at once, one of them writing: the runtime may     *)
(* notice and stop the process, or let both through in either order.        *)
Raced ==
    LET at(S) == {c \in Callers : call[c].at \in S}
        Clash(W, R) == \E c \in at(W) : at(W \cup R) \ {c} # {}
    IN  Clash({"index", "clear"}, {"find", "check"}) \/ Clash({"store"}, {"load", "byId", "clear"})

Crash == Raced /\ crashed' = TRUE /\ UNCHANGED <<now, Store, tokens, call, calls>>

Step(c) ==
    \/ \E n \in Usernames : Signup(c, n) \/ Login(c, n)
    \/ \E t \in tokens : Refresh(c, t)
    \/ FindUser(c) \/ LoadUser(c) \/ CheckName(c) \/ WriteIndex(c) \/ WriteData(c)
    \/ StampExp(c) \/ StampIat(c) \/ StampNbf(c) \/ LoadById(c)
    \/ Clear(c) \/ ClearName(c) \/ ClearEnds(c)

Next ==
    /\ ~crashed
    /\ \/ (Tick \/ (\E c \in Callers : Step(c)) \/ \E u \in Uids : Disable(u)) /\ UNCHANGED crashed
       \/ Crash

Spec == Init /\ [][Next]_vars
-----------------------------------------------------------------------------
(* A name in the index leads to a stored user of that name, or to one whose  *)
(* signup is about to store it: whatever signups and Clear overlap, a name   *)
(* is never taken by nobody.                                                *)
NameLeadsToUser ==
    \A n \in Usernames :
        LET u == index[n]
        IN  u # None =>
              \/ data[u] # None /\ data[u].name = n
              \/ \E c \in Callers : call[c].at = "store" /\ call[c].uid = u /\ call[c].name = n

(* No token is good for longer than its configured timeout, counted from the *)
(* second it says it was issued in, however long its making took.  Cutting   *)
(* both times to seconds may add less than one; to a timeout of whole        *)
(* seconds that adds nothing, as exp and iat are whole themselves.           *)
NotLongerThanConfigured ==
    \A t \in tokens : t.exp < t.iat + Validity(t.kind) + PerSecond

(* The inductive invariant behind the two: a call has in hand the name and    *)
(* the user its point needs; signups about to store have users of their own,  *)
(* not stored yet; and an expiry was counted from no later than now, or iat.  *)
Hands ==
    \A c \in Callers :
        LET r == call[c]
        IN  /\ r.at \in {"find", "load", "check", "index", "store"} => r.name # None
            /\ r.at \in {"load", "store", "exp", "iat", "nbf", "byId"} => r.uid # None
            /\ r.at = "store" => /\ data[r.uid] = None
                                 /\ \A d \in Callers \ {c} :
                                        call[d].at = "store" => call[d].uid # r.uid
            /\ r.at = "iat" => r.exp <= now + Validity(r.kind)
            /\ r.at = "nbf" => r.exp < r.iat + Validity(r.kind) + PerSecond

(* The calls that may still sign a token for u.                              *)
UnderWay(u) ==
    \E c \in Callers : call[c].uid = u /\ call[c].at \in {"byId", "exp", "iat", "nbf"}

(* A disabled user gets no refresh token any more, but by a Login that had   *)
(* looked before; and once all its tokens have expired it gets none at all.  *)
DisabledRunsOut ==
    [][\A u \in disabled : ~UnderWay(u) =>
          /\ (\A t \in tokens : t.uid = u => t.exp < now) => ~UnderWay(u)'
          /\ \A c \in Callers :
               call'[c].op = "login" /\ call'[c].uid = u => call'[c].at = "load"]_vars

(* services/auth/session_test.go:117, "should be able to verify an issued    *)
(* token": a token is accepted from when it was signed until it expires.    *)
IssuedIsAccepted ==
    \A t \in tokens : now <= t.exp => Accepts(t)

=============================================================================
