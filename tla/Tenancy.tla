------------------------------- MODULE Tenancy -------------------------------
(***************************************************************************)
(* What the lane allocation of FRONT-DOOR.md 6.2 promises, said without    *)
(* journals, leases or lists: a hosted start moves into a managed home in  *)
(* one atomic step, under terms that agree with those of everybody who     *)
(* lives anywhere at that moment, it keeps its terms while it stays, and   *)
(* once it has left it does not come back.                                 *)
(***************************************************************************)
CONSTANTS Adm,      \* admissions
          Terms,    \* what is wanted (lane, profile and digest) and the home
          NoTerms,  \* of an admission that is not hosted
          AdHoc     \* the lane of ad-hoc launches

VARIABLES stage,  \* Adm -> whether it waits, is hosted, or is gone
          terms   \* Adm -> the terms it is hosted under

tvars == <<stage, terms>>

TInit ==
    /\ stage = [a \in Adm |-> "waiting"]
    /\ terms = [a \in Adm |-> NoTerms]

\* One home or profile is one lane's, or the ad-hoc launches'; one lane has one
\* profile, digest and home.
Agree(t, u) ==
    /\ t.home = u.home \/ t.want.profile = u.want.profile => t.want.lane = u.want.lane
    /\ t.want.lane = u.want.lane /\ t.want.lane # AdHoc => t = u

MoveIn(a) ==
    /\ stage[a] = "waiting"
    /\ stage' = [stage EXCEPT ![a] = "hosted"]
    /\ \E t \in Terms :
        /\ \A b \in Adm : stage[b] = "hosted" => Agree(t, terms[b])
        /\ terms' = [terms EXCEPT ![a] = t]

\* The lease ends, perhaps before the start it was taken for.
Leave(a) ==
    /\ stage[a] # "gone"
    /\ stage' = [stage EXCEPT ![a] = "gone"]
    /\ terms' = [terms EXCEPT ![a] = NoTerms]

TNext == \E a \in Adm : MoveIn(a) \/ Leave(a)

TSpec == TInit /\ [][TNext]_tvars
=============================================================================
