------------------------------ MODULE Clients ------------------------------
(***************************************************************************)
(* Three parts of the system that people use from a browser: signing in    *)
(* with a provider, notes, and the administrator's view of the visits.     *)
(* They share no table and no memory, so a step of one leaves the others   *)
(* alone, and a behaviour is about one of them.                            *)
(***************************************************************************)
EXTENDS SignIn, Notes, Traffic

CONSTANT Parts   \* the parts behaviours are about

ASSUME ClientsConstants == Parts \subseteq {"signin", "notes", "traffic"}

VARIABLE part

clientVars == <<part, signInVars, notesVars, trafficVars>>

\* A part that a behaviour is not about begins in one way only.
ClientsInit ==
    /\ part \in Parts
    /\ SignInInit
    /\ NotesInit
    /\ part = "notes" \/ (scene = (CHOOSE s \in Scenes : TRUE) /\ note.owner = "user"
                          /\ note.mode = "none")
    /\ TrafficInit
    /\ part = "traffic" \/ trafficScene = CHOOSE s \in TrafficScenes : TRUE

SignInAlone ==
    part = "signin" /\ SignInNext /\ UNCHANGED <<notesVars, trafficVars, part>>
NotesAlone ==
    part = "notes" /\ NotesNext /\ UNCHANGED <<signInVars, trafficVars, part>>
TrafficAlone ==
    part = "traffic" /\ TrafficNext /\ UNCHANGED <<signInVars, notesVars, part>>

ClientsNext == SignInAlone \/ NotesAlone \/ TrafficAlone

ClientsSpec == ClientsInit /\ [][ClientsNext]_clientVars
=============================================================================
