------------------------------ MODULE Optional ------------------------------
(* Optional fields of the API: Go pointers, nil when the field is not set.  *)

CONSTANT Nil

\* derefInt32, derefString and their inlined forms.
Deref(value, default) == IF value = Nil THEN default ELSE value
=============================================================================
