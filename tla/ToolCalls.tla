------------------------------- MODULE ToolCalls --------------------------------
(***************************************************************************)
(* The way of a tool call through the gates of ToolRegistry::ExecuteTool   *)
(* (tools/tool_registry.cpp) and through the approval manager              *)
(* (security/exec_approval.cpp), while an MCP server registers its tool    *)
(* and an operator answers or an expiry sweep clears pending requests.     *)
(*                                                                         *)
(* The approval request of a call is named after the call.                 *)
(***************************************************************************)
EXTENDS Naturals, Sequences

CONSTANTS Call

Tool     == {"exec", "write", "process", "read", "mcp"}
Declared == {"exec", "write"}       \* registered with mutating = true
Decision == {"approved", "denied", "timeout"}

VARIABLES registered,      \* "mcp" is in tools_
          external,        \* "mcp" is in external_tools_
          policy,          \* fixed configuration: ask, askFallback, handler, ...
          call,            \* the local state of each call
          pending,         \* pending_
          resolved         \* resolved_

toolVars == <<registered, external, policy, call, pending, resolved>>

Stages == {"idle", "gates", "ask", "asked", "answered", "run", "refused"}

NewCall == [stage |-> "idle", tool |-> "read", hint |-> FALSE, ext |-> FALSE,
            decision |-> "none"]

TypeOK ==
    /\ registered \in BOOLEAN /\ external \in BOOLEAN
    /\ policy \in [ask : {"off", "on-miss", "always"},
                   fallback : {"approved", "denied"},
                   handler : BOOLEAN, mcpDenied : BOOLEAN, outOfScope : BOOLEAN]
    /\ call \in [Call -> [stage : Stages, tool : Tool, hint : BOOLEAN,
                          ext : BOOLEAN, decision : Decision \cup {"none"}]]
    /\ pending \subseteq Call
    /\ resolved \in Seq([id : Call, decision : Decision,
                         by : {"auto", "operator", "system"}])

\* outOfScope: the targets of every call lie outside the configured scope
Init ==
    /\ registered = FALSE
    /\ external = FALSE
    /\ policy \in [ask : {"off", "on-miss", "always"},
                   fallback : {"approved", "denied"},
                   handler : BOOLEAN, mcpDenied : BOOLEAN, outOfScope : BOOLEAN]
    /\ call = [c \in Call |-> NewCall]
    /\ pending = {}
    /\ resolved = <<>>

Step(c, s) == call' = [call EXCEPT ![c] = s]

-----------------------------------------------------------------------------
(* RegisterExternalTool, from the thread of the MCP connection              *)

RegisterTool ==
    /\ ~registered
    /\ registered' = TRUE
    /\ UNCHANGED <<external, policy, call, pending, resolved>>

MarkExternal ==
    /\ registered /\ ~external
    /\ external' = TRUE
    /\ UNCHANGED <<registered, policy, call, pending, resolved>>

-----------------------------------------------------------------------------
(* ExecuteTool                                                              *)

\* The shared-lock section: what the registry knows of the tool.  hint: the
\* parameters (or the name, of an external tool) look like a mutation.
LookUp(c) ==
    /\ call[c].stage = "idle"
    /\ \E tool \in Tool, hint \in BOOLEAN :
         /\ tool = "mcp" => registered
         /\ Step(c, [NewCall EXCEPT !.stage = "gates", !.tool = tool, !.hint = hint,
                                    !.ext = tool = "mcp" /\ external])
    /\ UNCHANGED <<registered, external, policy, pending, resolved>>

\* permission_allows: an external tool by the rule of its server, others by name
PermissionAllows(s) == ~(s.ext /\ policy.mcpDenied)

\* is_mutating_impl
IsMutating(s) ==
    \/ s.tool \in Declared
    \/ s.tool = "process" /\ s.hint
    \/ s.ext /\ s.hint

\* exec is let through to its own request, which exec_tool makes
AsksForApproval(s) == s.tool = "exec" \/ IsMutating(s)

\* Permission, scope, and whether approval is asked for at all
Gates(c) ==
    /\ call[c].stage = "gates"
    /\ Step(c, [call[c] EXCEPT
         !.stage = IF ~PermissionAllows(call[c]) \/ policy.outOfScope THEN "refused"
                   ELSE IF AsksForApproval(call[c]) THEN "ask" ELSE "run"])
    /\ UNCHANGED <<registered, external, policy, pending, resolved>>

-----------------------------------------------------------------------------
(* The approval manager                                                     *)

\* RequestApproval: the mode, the allowlist, and otherwise a pending request
RequestApproval(c) ==
    /\ call[c].stage = "ask"
    /\ \/ /\ policy.ask \in {"off", "on-miss"}      \* for on-miss: a match
          /\ Step(c, [call[c] EXCEPT !.stage = "run", !.decision = "approved"])
          /\ UNCHANGED pending
       \/ /\ policy.ask # "off"                     \* for on-miss: no match
          /\ Step(c, [call[c] EXCEPT !.stage = "asked"])
          /\ pending' = pending \cup {c}
    /\ UNCHANGED <<registered, external, policy, resolved>>

\* The handler, if there is one, answers under the lock; without an answer the
\* fallback is taken at once, the timeout is not waited for.
TakeDecision(c) ==
    /\ call[c].stage = "asked"
    /\ \E d \in {policy.fallback} \cup
                (IF policy.handler THEN {"approved", "denied"} ELSE {}) :
         Step(c, [call[c] EXCEPT !.stage = "answered", !.decision = d])
    /\ UNCHANGED <<registered, external, policy, pending, resolved>>

\* Fault: an answer is recorded whether the request is pending or not
ResolvedAgain(id, d, by) ==
    /\ pending' = pending \ {id}
    /\ resolved' = Append(resolved, [id |-> id, decision |-> d, by |-> by])

\* Resolve: the first answer to a request is the one on record
Resolved(id, d, by) ==
    IF id \in pending
    THEN /\ pending' = pending \ {id}
         /\ resolved' = Append(resolved, [id |-> id, decision |-> d, by |-> by])
    ELSE UNCHANGED <<pending, resolved>>

\* RequestApproval goes on: it records its decision and returns it, recorded or not
Return(c) ==
    /\ call[c].stage = "answered"
    /\ Resolved(c, call[c].decision, "auto")
    /\ Step(c, [call[c] EXCEPT
         !.stage = IF call[c].decision = "approved" THEN "run" ELSE "refused"])
    /\ UNCHANGED <<registered, external, policy>>

\* exec.approval.resolve
OperatorResolve(c) ==
    /\ c \in pending
    /\ \E d \in {"approved", "denied"} : Resolved(c, d, "operator")
    /\ UNCHANGED <<registered, external, policy, call>>

\* PruneExpired, for one request whose time is up
PruneExpired(c) ==
    /\ c \in pending
    /\ Resolved(c, "timeout", "system")
    /\ UNCHANGED <<registered, external, policy, call>>

Next ==
    \/ RegisterTool \/ MarkExternal
    \/ \E c \in Call :
         \/ LookUp(c) \/ Gates(c) \/ RequestApproval(c) \/ TakeDecision(c)
         \/ Return(c) \/ OperatorResolve(c) \/ PruneExpired(c)

Spec == Init /\ [][Next]_toolVars

-----------------------------------------------------------------------------
(* Properties                                                               *)

Ran(c) == call[c].stage = "run"

\* No handler runs that a rule forbids, or that mutates without an approval,
\* with one exception: an MCP tool looked up between the two locked sections of
\* its registration is taken for a built-in one.
GatesHold ==
    \A c \in Call : Ran(c) =>
      /\ ~policy.outOfScope
      /\ \/ call[c].tool = "mcp" /\ ~call[c].ext
         \/ /\ call[c].tool = "mcp" => ~policy.mcpDenied
            /\ call[c].hint \/ call[c].tool \in Declared =>
                 call[c].tool = "read" \/ call[c].decision = "approved"

\* Every request that was made is pending or on record exactly once, and the
\* decision a call acted on is the one on record unless the operator or the sweep
\* came first.
RecordAgrees ==
    /\ \A i, j \in DOMAIN resolved : resolved[i].id = resolved[j].id => i = j
    /\ \A i \in DOMAIN resolved :
         /\ resolved[i].id \notin pending
         /\ resolved[i].by = "auto" => resolved[i].decision = call[resolved[i].id].decision
    /\ \A c \in Call :
         call[c].stage \in {"run", "refused"} => c \notin pending
=============================================================================
