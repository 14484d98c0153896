---------------------------- MODULE AtomicStore ----------------------------
(* What a storage backend promises its callers (storage/base.py and the      *)
(* comment in SynthesisCache.put): a put takes effect at once and whole, or   *)
(* not at all, and a caller told "ok" has had its effect.                     *)
CONSTANTS FileWriters, FileKeys, FileValues

VARIABLES store,    \* key -> the value it holds, or "absent"
          request,  \* writer -> <<key, value>> it is putting, or NoRequest
          reply     \* writer -> outcome of its last put

NoRequest == <<"none", "none">>

absVars == <<store, request, reply>>

Init == /\ store = [k \in FileKeys |-> "absent"]
        /\ request = [w \in FileWriters |-> NoRequest]
        /\ reply = [w \in FileWriters |-> "none"]

Call(w) == /\ request[w] = NoRequest
           /\ \E k \in FileKeys, v \in FileValues :
                 request' = [request EXCEPT ![w] = <<k, v>>]
           /\ reply' = [reply EXCEPT ![w] = "none"]
           /\ UNCHANGED store

TakeEffect(w) == /\ request[w] # NoRequest
                 /\ store' = [store EXCEPT ![request[w][1]] = request[w][2]]
                 /\ request' = [request EXCEPT ![w] = NoRequest]
                 /\ reply' = [reply EXCEPT ![w] = "ok"]

Fail(w) == /\ request[w] # NoRequest
           /\ request' = [request EXCEPT ![w] = NoRequest]
           /\ reply' = [reply EXCEPT ![w] = "failed"]
           /\ UNCHANGED store

Remove(k) == /\ store' = [store EXCEPT ![k] = "absent"]
             /\ UNCHANGED <<request, reply>>

Next == \/ \E w \in FileWriters : Call(w) \/ TakeEffect(w) \/ Fail(w)
        \/ \E k \in FileKeys : Remove(k)

Spec == Init /\ [][Next]_absVars
=============================================================================
