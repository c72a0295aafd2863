---------------------------- MODULE MCFileStore ----------------------------
(***************************************************************************)
(* Files, uploads, menus and edit dialogs on small sets.  Each is checked  *)
(* while the others are in an initial state: what an upload shares with    *)
(* the files, its save, is modelled in both, and which menus a role has    *)
(* does not depend on where they hang.  The four have in common that a     *)
(* small instance can run out of ids and come to rest.                     *)
(***************************************************************************)
EXTENDS FileStore, Upload, Menus, EditDialogs

StoresVars == <<vars, uploadVars, menuVars, dialogVars>>

StoresInit == Init /\ UploadInit /\ MenusInit /\ DialogsInit

\* Only the dialogs have more than one initial state.
NoDialogs == DialogsInit /\ page = "roles"

StoresNext ==
    \/ /\ UploadInit /\ MenusInit /\ NoDialogs
       /\ Next /\ UNCHANGED <<uploadVars, menuVars, dialogVars>>
    \/ /\ Init /\ MenusInit /\ NoDialogs
       /\ UploadNext /\ UNCHANGED <<vars, menuVars, dialogVars>>
    \/ /\ Init /\ UploadInit /\ NoDialogs
       /\ MenusNext /\ UNCHANGED <<vars, uploadVars, dialogVars>>
    \/ /\ Init /\ UploadInit /\ MenusInit
       /\ DialogsNext /\ UNCHANGED <<vars, uploadVars, menuVars>>

StoresSpec == StoresInit /\ [][StoresNext]_StoresVars

\* The configuration takes the requests and the menus from one set, and the
\* files, the desks, the holders and the fetches from another.
Symmetry == Permutations(Request) \union Permutations(File)
=============================================================================
