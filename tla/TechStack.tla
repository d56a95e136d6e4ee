------------------------------ MODULE TechStack -----------------------------
(***************************************************************************)
(* The inventory of applications, which is kept twice: as the table        *)
(* tech_stack, which the dashboard shows and edits and an upload replaces, *)
(* and as the rows main read from techstack.csv when the process started,  *)
(* which the matchers and the scores use.                                  *)
(***************************************************************************)
EXTENDS Matching

CONSTANTS Inventory,   \* what the file or an upload may hold: sets of rows
          MaxEdits     \* bound: edits of the table between two imports

VARIABLES orgCtx,      \* the rows read at the start
          table,       \* table tech_stack
          edits        \* edits of the table since the last import

stackVars == <<orgCtx, table, edits>>

\* A table that nobody has edited holds a whole inventory.
StackTypeOK == /\ orgCtx \in Inventory
               /\ table \in SUBSET AppRow
               /\ edits \in 0..MaxEdits
               /\ edits = 0 => table \in Inventory

StackInit == /\ orgCtx \in Inventory
             /\ table = orgCtx
             /\ edits = 0

\* Faulty variant: without a transaction the rows are gone when an insert fails.
ImportByStep(rows) == /\ \/ table' = rows
                         \/ table' = {}
                      /\ edits' = 0

\* ImportTechStack: in one transaction the rows are replaced, or, on any error, kept.
Import(rows) == \/ table' = rows /\ edits' = 0
                \/ UNCHANGED <<table, edits>>

\* The process starts anew. A failed import is logged, and the start goes on.
ReadInventory(file) == orgCtx' = file /\ Import(file)

\* handleAdminImport.
Upload(rows) == Import(rows) /\ UNCHANGED orgCtx

Edit(rows) == /\ edits < MaxEdits /\ edits' = edits + 1
              /\ table' = rows
              /\ UNCHANGED orgCtx

\* handleAdminTechStack: by name, and nothing keeps the name unique.
AddRow(row) == Edit(table \cup {row})

Named(name) == {r \in table : r.name = name}

UpdateRows(row) == Named(row.name) # {} /\ Edit((table \ Named(row.name)) \cup {row})

DeleteRows(name) == Named(name) # {} /\ Edit(table \ Named(name))
=============================================================================
