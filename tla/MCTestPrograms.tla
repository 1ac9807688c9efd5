--------------------------- MODULE MCTestPrograms ---------------------------
(***************************************************************************)
(* The programs and libraries beside the command path.  They share no      *)
(* state: a behaviour is one of them, the others staying where they began. *)
(***************************************************************************)
EXTENDS ImageFiles, SystemTest, TestClient, IonMemory

VARIABLE program

MCFrameSizes == {<<4, 2>>, <<4, 4>>}

programVars == <<program, imageVars, systemTestVars, testClientVars, ionVars>>

\* The kernel and descriptor 0 differ for the ION users only.
ProgramsInit ==
    /\ program \in {"files", "frames", "systest", "client", "ion"}
    /\ ImageInit /\ SystemTestInit /\ TestClientInit /\ IonInit
    /\ program /= "ion" => legacy /\ fdTable[0] = "other"

OfSystemTest(A) == /\ program = "systest" /\ A
                   /\ UNCHANGED <<program, imageVars, testClientVars, ionVars>>
ProgramsNext ==
    \/ /\ program = "files" /\ FileNext
       /\ UNCHANGED <<program, systemTestVars, testClientVars, ionVars>>
    \/ /\ program = "frames" /\ FrameNext
       /\ UNCHANGED <<program, systemTestVars, testClientVars, ionVars>>
    \/ OfSystemTest(SystemTestNext)
    \/ /\ program = "client" /\ TestClientNext
       /\ UNCHANGED <<program, imageVars, systemTestVars, ionVars>>
    \/ /\ program = "ion" /\ IonNext
       /\ UNCHANGED <<program, imageVars, systemTestVars, testClientVars>>

\* The fairness of SystemTestSpec, on the whole state.
ProgramsSpec ==
    /\ ProgramsInit /\ [][ProgramsNext]_programVars
    /\ WF_programVars(OfSystemTest(MainStep))
    /\ WF_programVars(OfSystemTest(vdsp_main_depth))
    /\ WF_programVars(OfSystemTest(vdsp_main_bokeh))
    /\ WF_programVars(OfSystemTest(vdsp_main))
=============================================================================
