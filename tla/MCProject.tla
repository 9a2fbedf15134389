----------------------------- MODULE MCProject ------------------------------
(***************************************************************************)
(* The components of a project that share no state, on small instances:    *)
(* one of them moves in a behaviour, which part decides at the start.      *)
(***************************************************************************)
EXTENDS ProjectAccess, LabelOrder, LabelReaders, TestRuns, TicketMessages, TLC

VARIABLE part

projectVars == <<accessVars, labelVars, readerVars, vars, messageVars, part>>

\* The parts that do not move stay in one state of their own.
ProjectInit ==
  /\ part \in {"access", "labels", "readers", "runs", "messages"}
  /\ LabelInit /\ Init
  /\ AccessInit /\ (part # "access" => \A n \in Roles : roles[n].keys = {})
  /\ LabelReadersInit /\ (part # "readers" => \A v \in Viewers : viewerRole[v] = "owner")
  /\ MessagesInit /\ (part # "messages" => event = [of |-> "new", by |-> Reporter] /\ addressees = NoOne)

ProjectNext ==
  /\ UNCHANGED part
  /\ \/ /\ part = "access" /\ AccessNext
        /\ UNCHANGED <<labelVars, readerVars, vars, messageVars>>
     \/ /\ part = "labels" /\ LabelNext
        /\ UNCHANGED <<accessVars, readerVars, vars, messageVars>>
     \/ /\ part = "readers" /\ LabelReadersNext
        /\ UNCHANGED <<accessVars, labelVars, vars, messageVars>>
     \/ /\ part = "runs" /\ Next
        /\ UNCHANGED <<accessVars, labelVars, readerVars, messageVars>>
     \/ /\ part = "messages" /\ MessagesNext
        /\ UNCHANGED <<accessVars, labelVars, readerVars, vars>>

ProjectSpec == ProjectInit /\ [][ProjectNext]_projectVars

\* All components are given the same two requests; features, names and readers
\* are the same two values: an exchange of two of them changes nothing.
Symmetry == Permutations(Requests) \cup Permutations(Features)
=============================================================================
