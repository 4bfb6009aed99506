----------------------------- MODULE MCSideTools -----------------------------
(***************************************************************************)
(* Instance of SideTools for TLC.                                          *)
(***************************************************************************)
EXTENDS SideTools

(* Two classes with a method of one name, a method and a function of one   *)
(* name, a lambda.                                                         *)
SourceNodes ==
    {<<"A", "f">>, <<"B", "f">>, <<"B", "g">>, <<"g">>}
        \cup {<<"A", "f">> \o LambdaAt("12")}

(* Every bucket has its first finding, the first may have another one.     *)
SmallKeys ==
    {<<>>, <<"pass">>, <<"NULL">>, <<"pass", "NULL">>, <<"NULL", "pass">>, <<"NULL", "NULL">>}
SmallFindings(keys) ==
    {fs \in UNION {[1..n -> [oracle : Oracles, bucket : DOMAIN keys]] :
                        n \in {Len(keys), Len(keys) + 1}} :
        \A i \in DOMAIN fs :
            /\ fs[i].bucket = IF i <= Len(keys) THEN i ELSE 1
            /\ keys[fs[i].bucket] = "NULL" \/ fs[i].oracle = "alive_tv"}
SmallDatabases ==
    UNION {{[keys |-> keys, findings |-> fs] : fs \in SmallFindings(keys)} : keys \in SmallKeys}

(* Passes that run at once are not combined with faults or many rows.      *)
OneFault == overlapped => faults = 0 /\ Len(rows) <= 1
=============================================================================
