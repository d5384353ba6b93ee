----------------------------- MODULE ScopedEnv -------------------------------
(***************************************************************************)
(* What a client of the symbol table may rely on: lexical scoping.  Every  *)
(* open block has a complete environment of its own, a function from names *)
(* to declarations.  Entering a block copies the environment, leaving it   *)
(* forgets the copy, and a name can be declared once in a block.           *)
(***************************************************************************)
EXTENDS Naturals, Sequences

CONSTANTS Names, Decls, Undefined, MaxDepth

VARIABLES env,    \* the environments of the open blocks, the outermost first
          own,    \* the names each open block has declared itself
          reply   \* what the last operation returned

envvars == <<env, own, reply>>

Innermost == Len(env)

Init == /\ env   = << [n \in Names |-> Undefined] >>
        /\ own   = << {} >>
        /\ reply = Undefined

Enter == /\ Innermost \in 1..MaxDepth - 1
         /\ env' = Append(env, env[Innermost])
         /\ own' = Append(own, {})
         /\ UNCHANGED reply

\* The outermost block is never left.
Leave == /\ Innermost > 1
         /\ env' = SubSeq(env, 1, Innermost - 1)
         /\ own' = SubSeq(own, 1, Innermost - 1)
         /\ UNCHANGED reply

Declare(n, d) == /\ Innermost > 0
                 /\ n \notin own[Innermost]
                 /\ env' = [env EXCEPT ![Innermost][n] = d]
                 /\ own' = [own EXCEPT ![Innermost] = @ \cup {n}]
                 /\ reply' = TRUE

Refuse(n) == /\ Innermost > 0
             /\ n \in own[Innermost]
             /\ reply' = FALSE
             /\ UNCHANGED <<env, own>>

Resolve(n) == /\ Innermost > 0
              /\ reply' = env[Innermost][n]
              /\ UNCHANGED <<env, own>>

ResolveOwn(n) == /\ Innermost > 0
                 /\ reply' = IF n \in own[Innermost] THEN env[Innermost][n] ELSE Undefined
                 /\ UNCHANGED <<env, own>>

Close == /\ Innermost > 0
         /\ env' = <<>>
         /\ own' = <<>>
         /\ UNCHANGED reply

Next == \/ Enter \/ Leave \/ Close
        \/ \E n \in Names : \/ Refuse(n) \/ Resolve(n) \/ ResolveOwn(n)
                            \/ \E d \in Decls : Declare(n, d)

Spec == Init /\ [][Next]_envvars
=============================================================================
