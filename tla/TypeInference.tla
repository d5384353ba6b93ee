---------------------------- MODULE TypeInference ----------------------------
(***************************************************************************)
(* infer_expr_type of src/type_inference.c: the type of an expression in   *)
(* an environment, a function from names to types, and how many errors it  *)
(* reports on the way.  NoType is the null Type pointer.                   *)
(*                                                                         *)
(* Types are compared for equality of their kinds (type_equal and          *)
(* type_compatible of src/type_system.c), so a Type is its kind; copies    *)
(* and frees of Type objects are left out.                                 *)
(***************************************************************************)
EXTENDS Integers

CONSTANTS UIntModulus,   \* 2^32, the range of the uint32_t in which a slice is measured
          Exprs,         \* the expressions of a program, and the parts of each
          Size(_)        \* how large one is

ASSUME ModulusAssumption == UIntModulus \in Nat \ {0}

NoType == "null"

IntegerTypes == {"u8", "u16", "u32", "u64", "i8", "i16", "i32", "i64"}
Comparisons  == {"EQ", "NE", "LT", "GT", "LE", "GE"}

\* Expressions without a part that is judged; the last four have no type at all.
Leaves   == {"number", "boolean", "identifier", "null"}
Untyped  == {"string", "array_index", "call", "member_access"}
Composed == {"unary", "binary", "bit_slice"}

\* The expressions that the type of e depends on.
Parts(e) == CASE e.kind = "unary"              -> {e.operand}
              [] e.kind = "binary"             -> {e.left, e.right}
              [] e.kind = "bit_slice"          -> {e.expr}
              [] e.kind \in Leaves \cup Untyped -> {}

\* An expression is a finite tree.
ASSUME ExprsAssumption ==
  \A e \in Exprs :
    /\ e.kind \in Leaves \cup Untyped \cup Composed
    /\ e.kind = "bit_slice" => {e.start, e.end} \subseteq 0..UIntModulus - 1
    /\ Size(e) \in Nat
    /\ \A p \in Parts(e) : p \in Exprs /\ Size(p) < Size(e)

\* No type, and n errors more; a type, and the errors made before.
Refused(n) == [type |-> NoType, errors |-> n]
Typed(t)   == [type |-> t, errors |-> 0]

\* Comparisons are of the type of their operands, too.
BinaryTypeOfLeft(op, left) == left

\* infer_binary_op_type
BinaryType(op, left) == IF op \in Comparisons THEN "u8" ELSE left

\* The unsigned difference is never below 0.
SliceWidth(start, end) == (end - start) % UIntModulus

SliceType(start, end) ==
  LET width == SliceWidth(start, end)
  IN  CASE width = 0          -> Refused(1)
        [] width \in 1..8     -> Typed("u8")
        [] width \in 9..16    -> Typed("u16")
        [] width \in 17..32   -> Typed("u32")
        [] OTHER              -> Typed("u64")

\* A part without a type ends the search; what it reported stays reported.
BothSides(left, right, op) ==
  CASE left.type = NoType                      -> left
    [] left.type # NoType /\ right.type = NoType -> right
    [] OTHER -> IF left.type = right.type THEN Typed(BinaryType(op, left.type)) ELSE Refused(1)

SliceOf(whole, e) == CASE whole.type = NoType         -> whole
                       [] whole.type \in IntegerTypes -> SliceType(e.start, e.end)
                       [] OTHER                       -> Refused(1)

\* One call of infer_expr_type; infer is the calls that it makes for its parts.
TypeFrom(infer, env, e) ==
  CASE e.kind = "number"     -> Typed("u32")
    [] e.kind = "boolean"    -> Typed("u8")
    [] e.kind = "identifier" -> IF env[e.name] = NoType THEN Refused(1) ELSE Typed(env[e.name])
    [] e.kind = "unary"      -> infer[e.operand]
    [] e.kind = "binary"     -> BothSides(infer[e.left], infer[e.right], e.op)
    [] e.kind = "bit_slice"  -> SliceOf(infer[e.expr], e)
    [] e.kind = "null"       -> Refused(0)
    [] e.kind \in Untyped    -> Refused(1)

\* infer_expr_type
Infer(env, e) == LET infer[x \in Exprs] == TypeFrom(infer, env, x) IN infer[e]
=============================================================================
