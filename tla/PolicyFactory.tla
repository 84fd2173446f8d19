---------------------------- MODULE PolicyFactory ----------------------------
(***************************************************************************)
(* PageReplacementPolicyFactory: creators registered under the type of     *)
(* policy they are asked for.  A registry maps each type that has one to   *)
(* the kind of object its creator makes; an empty creator is NoCreator.    *)
(***************************************************************************)
EXTENDS ReplacementPolicy

CONSTANTS NoCreator,  \* an empty std::function
          NoPolicy    \* a null pointer to a policy

IsValidPolicyType(type) == type \in PolicyKinds

EmptyRegistry == [type \in {} |-> NoCreator]

IsRegistered(registry, type) == IsValidPolicyType(type) /\ type \in DOMAIN registry

(* A type that is registered already gets the new creator. *)
RegisterPolicy(registry, type, creator) ==
  IF IsValidPolicyType(type) /\ creator # NoCreator
  THEN [t \in {type} \cup DOMAIN registry |-> IF t = type THEN creator ELSE registry[t]]
  ELSE registry

Create(registry, type) ==
  IF IsRegistered(registry, type) THEN NewPolicy(registry[type]) ELSE NoPolicy
=============================================================================
