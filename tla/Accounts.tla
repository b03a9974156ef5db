------------------------------- MODULE Accounts -------------------------------
(***************************************************************************)
(* Accounts: their roles and sanctions, sitters and what they do in an        *)
(* owner's name, and the keys of agents.  Nothing about a session is kept by  *)
(* the server: the two cookies of a request are an input of it, and it is     *)
(* judged anew by each layer it passes: the sanction guard, the sitting       *)
(* guard, the extractor of its handler and the use-case's own check; then it  *)
(* writes.  Each of them reads the tables by itself, and other requests may   *)
(* come in between.                                                           *)
(***************************************************************************)
EXTENDS Integers, FiniteSets

CONSTANTS
  Humans, Bots,               \* accounts: people's, who are there, and those made for agents
  Calls,                      \* one-shot POSTs
  Appointed,                  \* account -> the roles the operator's lists grant it at startup
  MaxSitters,
  Outsets,                    \* the worlds to start from
  Nobody, Unsent, Served, Dropped

Users == Humans \cup Bots
Powers == {"moderator", "admin"}
Sanctions == {"suspended", "banned"}     \* a warning changes nothing

ASSUME AccountsAssumption ==
  /\ IsFiniteSet(Users) /\ MaxSitters \in Nat /\ Humans \cap Bots = {} /\ Nobody \notin Users
  /\ Appointed \in [Users -> SUBSET Powers]
  /\ \A w \in Outsets :
       /\ w.sitters \subseteq Humans \X Humans
       /\ w.roles \in [Users -> SUBSET Powers] /\ \E u \in Humans : "admin" \in w.roles[u]

\* What a request wants; the name is of the route it is sent to.
ByAccount == {"play", "settings", "sanction"}             \* AuthUser: the owner's, while sitting
ByHuman == {"grant", "revoke", "role", "agent", "disarm"} \* RealUser
ByKey == {"bot"}                                          \* AgentGame
Routes == ByAccount \cup ByHuman \cup ByKey

\* sitter_restricted: what a sitter may not do.
OwnersOnly == {"settings", "sanction", "grant", "revoke"}

Steps == {"sent", "cleared", "admitted", "acting", "registered", "tagged"}

Call == [route : Routes, step : Steps, real : Users, sit : Users \cup {Nobody}, as : Users, who : Users,
         role : Powers, on : BOOLEAN, kind : Sanctions, glitch : BOOLEAN]

ASSUME Apart == /\ Unsent \notin Call \cup {Served, Dropped} /\ Served \notin Call \cup {Dropped}
                /\ Dropped \notin Call

VARIABLES
  known,    \* rows of users
  roles,    \* user -> its role columns, and "ai"
  barred,   \* user -> banned_at, and suspended_until while it is to come
  sitters,  \* rows of account_sitters: <<owner, sitter>>
  trail,    \* rows of sitter_actions, with the request each is about: <<call, owner, sitter>>
  keys,     \* agents with a key that is not revoked
  call

people == <<known, roles, barred, sitters>>
accountVars == <<people, trail, keys, call>>

Blocked(u) == barred[u] # {}

\* authorize_sit: whom the request acts for, if its sit cookie holds.
Seat(c) == LET o == call[c].sit IN
  IF o # Nobody /\ <<o, call[c].real>> \in sitters /\ ~Blocked(o) THEN o ELSE Nobody

\* effective_identity: a read that fails is an owner nobody sits for.
Seen(c) == {Seat(c), Nobody}

-----------------------------------------------------------------------------
(* A request and the layers it passes *)

Blanket(route, step, u) ==
  [route |-> route, step |-> step, real |-> u, sit |-> Nobody, as |-> u, who |-> u,
   role |-> "admin", on |-> FALSE, kind |-> "banned", glitch |-> FALSE]

Post(c, d) == /\ call[c] = Unsent
              /\ call' = [call EXCEPT ![c] = d]
              /\ UNCHANGED <<people, trail, keys>>

\* The sit cookie is of any owner: it outlives the grant, which is looked up each time.
Send(c, u, o, route, w) ==
  LET d == [Blanket(route, "sent", u) EXCEPT !.sit = o, !.who = w] IN
  /\ o # u
  /\ \/ route \in {"play", "settings"} /\ w = u /\ Post(c, d)
     \/ route \in {"grant", "revoke"} /\ w \in known /\ Post(c, d)
     \/ route \in {"agent", "disarm"} /\ w \in Bots /\ Post(c, d)
     \/ route = "sanction" /\ w \in known /\ \E k \in Sanctions : Post(c, [d EXCEPT !.kind = k])
     \/ route = "role" /\ w \in known /\ \E p \in Powers, on \in BOOLEAN : Post(c, [d EXCEPT !.role = p, !.on = on])

Underway(c) == call[c] \notin {Unsent, Served, Dropped}
InStep(c, step) == Underway(c) /\ call[c].step = step

Pass(c, step, glitch) ==
  call' = [call EXCEPT ![c].step = step, ![c].glitch = @ \/ glitch]

\* Mutant: only the account the request acts for is looked up.
ActionGuardSeat(c) ==
  /\ InStep(c, "sent")
  /\ \E o \in Seen(c) :
       /\ ~Blocked(IF o = Nobody THEN call[c].real ELSE o)
       /\ Pass(c, "cleared", o # Seat(c))
  /\ UNCHANGED <<people, trail, keys>>

\* action_guard: the human and the account he sits for; an account that cannot be read passes.
ActionGuard(c) ==
  /\ InStep(c, "sent")
  /\ \E o \in Seen(c) : \E lost \in SUBSET ({call[c].real, o} \cap Users) :
       /\ \A u \in ({call[c].real, o} \cap Users) \ lost : ~Blocked(u)
       /\ Pass(c, "cleared", lost # {} \/ o # Seat(c))
  /\ UNCHANGED <<people, trail, keys>>

\* Mutant: requests that are refused to a sitter are not told from the others.
SittingGuardLax(c) ==
  /\ InStep(c, "cleared")
  /\ \E o \in Seen(c) :
       /\ trail' = IF o = Nobody \/ call[c].route \in OwnersOnly THEN trail
                   ELSE trail \cup {<<c, o, call[c].real>>}
       /\ Pass(c, "admitted", o # Seat(c))
  /\ UNCHANGED <<people, keys>>

\* sitting_guard: refuses what is the owner's alone, records the rest; a row that cannot be
\* written holds nothing up.
SittingGuard(c) ==
  /\ InStep(c, "cleared")
  /\ \E o \in Seen(c), lost \in BOOLEAN :
       /\ o # Nobody => call[c].route \notin OwnersOnly
       /\ trail' = IF o = Nobody \/ lost THEN trail ELSE trail \cup {<<c, o, call[c].real>>}
       /\ Pass(c, "admitted", lost \/ o # Seat(c))
  /\ UNCHANGED <<people, keys>>

\* The account a handler acts for.
Acting(d, o) == IF d.route \in ByAccount /\ o # Nobody THEN o ELSE d.real

SittersOf(o) == {s \in sitters : s[1] = o}

\* set_role: an administrator's, who may not take his own role away.
MaySetRole(d, as) ==
  /\ "admin" \in roles[as]
  /\ ~(d.role = "admin" /\ ~d.on /\ d.who = as)

\* The use-case's own check.
Permitted(d, as) ==
  \/ d.route \in {"play", "settings", "revoke"}
  \/ d.route = "sanction" /\ "moderator" \in roles[as]
  \/ d.route \in {"agent", "disarm"} /\ "admin" \in roles[as]
  \/ d.route = "role" /\ MaySetRole(d, as)
  \/ d.route = "grant" /\ d.who \in known \ {as} /\ Cardinality(SittersOf(as)) < MaxSitters

\* The extractor, which looks again, and the check.
Enter(c) ==
  /\ InStep(c, "admitted")
  /\ \E o \in Seen(c) :
       LET as == Acting(call[c], o) IN
       /\ Permitted(call[c], as)
       /\ call' = [call EXCEPT ![c].step = "acting", ![c].as = as, ![c].glitch = @ \/ o # Seat(c)]
  /\ UNCHANGED <<people, trail, keys>>

\* bearer_account: a live key of an account that is an agent's and not blocked.
Bearer(c, u) ==
  /\ u \in Bots /\ u \in keys /\ "ai" \in roles[u] /\ ~Blocked(u)
  /\ Post(c, Blanket("bot", "acting", u))

\* A layer refuses, a statement fails, or the handler is dropped.
Drop(c) ==
  /\ Underway(c)
  /\ call' = [call EXCEPT ![c] = Dropped]
  /\ UNCHANGED <<people, trail, keys>>

-----------------------------------------------------------------------------
(* What handlers write *)

Does(c, routes) == InStep(c, "acting") /\ call[c].route \in routes
Serve(c) == call' = [call EXCEPT ![c] = Served]

\* A game action, or a change of the account's settings.
Play(c) ==
  /\ Does(c, {"play", "settings", "bot"})
  /\ Serve(c) /\ UNCHANGED <<people, trail, keys>>

GrantSitter(c) ==
  /\ Does(c, {"grant"})
  /\ sitters' = sitters \cup {<<call[c].as, call[c].who>>}
  /\ Serve(c) /\ UNCHANGED <<known, roles, barred, trail, keys>>

RevokeSitter(c) ==
  /\ Does(c, {"revoke"})
  /\ sitters' = sitters \ {<<call[c].as, call[c].who>>}
  /\ Serve(c) /\ UNCHANGED <<known, roles, barred, trail, keys>>

ApplySanction(c) ==
  /\ Does(c, {"sanction"})
  /\ barred' = [barred EXCEPT ![call[c].who] = @ \cup {call[c].kind}]
  /\ Serve(c) /\ UNCHANGED <<known, roles, sitters, trail, keys>>

\* A suspension runs out; a ban does not.
Lapse(u) ==
  /\ "suspended" \in barred[u]
  /\ barred' = [barred EXCEPT ![u] = @ \ {"suspended"}]
  /\ UNCHANGED <<known, roles, sitters, trail, keys, call>>

SetRole(c) ==
  /\ Does(c, {"role"})
  /\ LET d == call[c] IN
       roles' = [roles EXCEPT ![d.who] = IF d.on THEN @ \cup {d.role} ELSE @ \ {d.role}]
  /\ Serve(c) /\ UNCHANGED <<known, barred, sitters, trail, keys>>

\* admin_create_agent: an account of its own, marked, and only then a key.
RegisterAgent(c) ==
  /\ Does(c, {"agent"})
  /\ call[c].who \notin known
  /\ known' = known \cup {call[c].who}
  /\ Pass(c, "registered", FALSE)
  /\ UNCHANGED <<roles, barred, sitters, trail, keys>>

SetIsAi(c) ==
  /\ InStep(c, "registered")
  /\ roles' = [roles EXCEPT ![call[c].who] = @ \cup {"ai"}]
  /\ Pass(c, "tagged", FALSE)
  /\ UNCHANGED <<known, barred, sitters, trail, keys>>

CreateAgentKey(c) ==
  /\ InStep(c, "tagged")
  /\ keys' = keys \cup {call[c].who}
  /\ Serve(c) /\ UNCHANGED <<people, trail>>

RevokeKeys(c) ==
  /\ Does(c, {"disarm"})
  /\ keys' = keys \ {call[c].who}
  /\ Serve(c) /\ UNCHANGED <<people, trail>>

\* The server stops and starts: requests are lost, and the operator's lists apply again.
Reboot ==
  /\ call' = [c \in Calls |-> IF Underway(c) THEN Dropped ELSE call[c]]
  /\ roles' = [u \in Users |-> IF u \in known THEN roles[u] \cup Appointed[u] ELSE roles[u]]
  /\ UNCHANGED <<known, barred, sitters, trail, keys>>

-----------------------------------------------------------------------------
AccountsInit ==
  /\ \E w \in Outsets : roles = w.roles /\ sitters = w.sitters
  /\ known = Humans /\ barred = [u \in Users |-> {}]
  /\ trail = {} /\ keys = {}
  /\ call = [c \in Calls |-> Unsent]

Requesting == \E c \in Calls :
  \/ \E u \in Humans, o \in Humans \cup {Nobody}, w \in Users, route \in Routes : Send(c, u, o, route, w)
  \/ \E u \in Users : Bearer(c, u)

Layers == \E c \in Calls : ActionGuard(c) \/ SittingGuard(c) \/ Enter(c) \/ Drop(c)

Handling == \E c \in Calls :
  \/ Play(c) \/ GrantSitter(c) \/ RevokeSitter(c) \/ ApplySanction(c) \/ SetRole(c)
  \/ RegisterAgent(c) \/ SetIsAi(c) \/ CreateAgentKey(c) \/ RevokeKeys(c)

AccountsNext == Requesting \/ Layers \/ Handling \/ Reboot \/ \E u \in Users : Lapse(u)
AccountsSpec == AccountsInit /\ [][AccountsNext]_accountVars

\* A quiet history: no read or log row is lost, and while a request is under way the seat it uses,
\* the blocks of those it acts for and the actor's roles stay as the layers have found them.
Lossless == \A c \in Calls : Underway(c)' => ~call'[c].glitch
Undisturbed == \A c \in Calls : Underway(c) /\ call'[c] = call[c] =>
  /\ Seat(c)' = Seat(c)
  /\ \A u \in {call[c].real, call[c].as} : (Blocked(u)' => Blocked(u)) /\ roles'[u] = roles[u]
AccountsQuiet == Lossless /\ Undisturbed

AccountsQuietSpec == AccountsInit /\ [][AccountsNext /\ AccountsQuiet]_accountVars

-----------------------------------------------------------------------------
(* Properties *)

\* The tables hold what their columns may hold; a key is of an account marked as an agent's, even
\* when the making of the agent is broken off (118).
AccountsTypeOK ==
  /\ known \subseteq Users /\ roles \in [Users -> SUBSET (Powers \cup {"ai"})]
  /\ barred \in [Users -> SUBSET Sanctions] /\ sitters \subseteq Users \X Users
  /\ trail \subseteq Calls \X Users \X Users
  /\ keys \subseteq known \cap {u \in Bots : "ai" \in roles[u]}
  /\ call \in [Calls -> Call \cup {Unsent, Served, Dropped}]

\* What is written in an owner's name by a sitter is on the owner's record (030 AC5), and is not the
\* owner's alone (AC4): the guard's finding is the handler's.
SitsRecorded == [][\A c \in Calls :
  Underway(c) /\ call'[c] = Served /\ call[c].as # call[c].real =>
    <<c, call[c].as, call[c].real>> \in trail /\ call[c].route \notin OwnersOnly]_accountVars

\* An administrator is left (036 AC3: nobody can take his own role away).
AdminRemains == \E u \in known : "admin" \in roles[u]

\* What is served is served to the unblocked: neither the human nor the account he acts for, nor an
\* agent, is banned or suspended when the write happens (022 AC5, 030 AC6).
BlockedDoNothing == [][\A c \in Calls : Underway(c) /\ call'[c] = Served =>
  ~Blocked(call[c].real) /\ ~Blocked(call[c].as)]_accountVars
=============================================================================
