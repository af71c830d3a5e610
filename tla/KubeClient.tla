----------------------------- MODULE KubeClient -----------------------------
(***************************************************************************)
(* What the controller relies on of the Kubernetes API and of the          *)
(* controller-runtime client, as the calls in the controller use them.     *)
(* Objects are compared through resource versions; a model needs no        *)
(* numbers for these, only whether a copy is still the server's latest     *)
(* version ("fresh").                                                      *)
(***************************************************************************)
EXTENDS Optional

\* An object that does not exist, and one that somebody has changed in a field
\* the operator sets: both differ from everything the operator writes.
Absent == [absent |-> TRUE]
Spoiled == [spoiled |-> TRUE]

\* Patch(obj, client.MergeFrom(orig)): a JSON merge patch that carries the fields
\* in which obj differs from orig, applied to whatever the server holds now.
MergePatched(orig, obj, server) ==
    [f \in DOMAIN server |-> IF obj[f] # orig[f] THEN obj[f] ELSE server[f]]

\* A response is decoded into the object the call was made with: a field the
\* response does not have keeps the value it had.
DecodeInto(held, response) ==
    [f \in DOMAIN response |-> IF response[f] = Nil THEN held[f] ELSE response[f]]

Mut_CreateOnly(server, cached, fresh, desired, rewritten) ==
    CASE cached = Absent -> IF server = Absent THEN "written" ELSE "rejected"
      [] OTHER -> "unchanged"

Mut_NoVersionCheck(server, cached, fresh, desired, rewritten) ==
    CASE cached = Absent -> IF server = Absent THEN "written" ELSE "rejected"
      [] cached # Absent /\ cached = desired /\ ~rewritten -> "unchanged"
      [] OTHER -> "written"

\* controllerutil.CreateOrUpdate on an object read from the informer's cache.
\* rewritten: the mutate function leaves out fields the API server fills in, so
\* that the mutated object always differs from the cached one.
CreateOrUpdate(server, cached, fresh, desired, rewritten) ==
    CASE cached = Absent -> IF server = Absent THEN "written" ELSE "rejected"
      [] cached # Absent /\ cached = desired /\ ~rewritten -> "unchanged"
      [] OTHER -> IF fresh THEN "written" ELSE "rejected"

Mut_KeepsGeneration(conds, type, status, generation, time) ==
    IF conds[type].status = status THEN conds
    ELSE [conds EXCEPT ![type] = [status |-> status, gen |-> generation, since |-> time]]

\* meta.SetStatusCondition: the transition time moves only with the status.
SetStatusCondition(conds, type, status, generation, time) ==
    [conds EXCEPT ![type] =
        [ status |-> status,
          gen    |-> generation,
          since  |-> IF conds[type].status = status THEN conds[type].since ELSE time ]]
=============================================================================
