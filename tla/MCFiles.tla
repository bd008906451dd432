------------------------------ MODULE MCFiles ------------------------------
(***************************************************************************)
(* Configurations of Save and Load.                                        *)
(***************************************************************************)
EXTENDS Files

R(k, type, size) == [n |-> k, type |-> type, id |-> 40 + k, size |-> size]
Three == <<R(1, 1, 1), R(2, 1, 2), R(3, 1, 1)>>
Mixed == <<R(1, 1, 2), R(2, 127, 1), R(3, 1, 3), R(4, 1, 1), R(5, 127, 1)>>

SaveTo(mode, maxItems, maxSize, text, id, faults) ==
  [mode |-> mode, maxItems |-> maxItems, maxSize |-> maxSize, text |-> text,
   overwrite |-> TRUE, saveType |-> TRUE, saveId |-> id, filter |-> {},
   faults |-> faults]
LoadFrom(name, text, wait, mark, maxItems) ==
  [name |-> name, text |-> text, wait |-> wait, mark |-> mark,
   maxItems |-> maxItems, resourceType |-> 0]
Scene(input, s, l) == [input |-> input, save |-> s, load |-> l]

FileScenes == {
  Scene(Three, SaveTo("OUTPUT", 0, 0, FALSE, TRUE, {}),
        LoadFrom(0, FALSE, TRUE, FALSE, 0)),
  Scene(Mixed, SaveTo("OUTPUT", 2, 0, FALSE, FALSE, {"open"}),
        LoadFrom(1, FALSE, FALSE, TRUE, 0)),
  Scene(Mixed, SaveTo("OUTPUT", 0, 2, FALSE, FALSE, {}),
        LoadFrom(3, FALSE, FALSE, TRUE, 0)),
  Scene(Mixed, [SaveTo("MULTI", 2, 0, FALSE, TRUE, {"open"}) EXCEPT !.filter = {1}],
        LoadFrom(1, FALSE, FALSE, TRUE, 1)),
  Scene(Three, [SaveTo("OUTPUT", 0, 0, TRUE, FALSE, {}) EXCEPT !.saveType = FALSE],
        [LoadFrom(0, TRUE, FALSE, TRUE, 2) EXCEPT !.resourceType = 1]),
  Scene(Three, [SaveTo("MULTI", 2, 0, TRUE, FALSE, {}) EXCEPT !.overwrite = FALSE],
        LoadFrom(0, TRUE, FALSE, FALSE, 0)),
  Scene(Three, SaveTo("OUTPUT", 0, 0, FALSE, TRUE, {"open"}),
        LoadFrom(NoFile, FALSE, FALSE, FALSE, 0)) }

=============================================================================
