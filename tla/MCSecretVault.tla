----------------------------- MODULE MCSecretVault -----------------------------
(* The instance of SecretVault for TLC.  A second secret and injections are in *)
(* it until something is asked for; that is asked for while the vault is at    *)
(* rest, and from then on the frontend alone works on it, with one secret.     *)
EXTENDS SecretVault

OneSecret == {CHOOSE s \in Secrets : TRUE}
AtRest == /\ pc = [a \in Actors |-> "idle"] /\ stale = {} /\ ~harmed
          /\ tmp = NoTmp /\ ~torn /\ file \subseteq OneSecret
Small ==
    /\ \A g \in Injectors : pc[g] = "idle"
    /\ \A h \in Threads : job[h].target \in Secrets => job[h].target \in OneSecret

MCNext ==
    /\ Next
    /\ (\E r \in Requests : ask[r] = "no" /\ ask'[r] # "no") => AtRest
    /\ (\E r \in Requests : ask[r] # "no") => Small'
MCSpec == Init /\ [][MCNext]_vars /\ Fairness
=============================================================================
