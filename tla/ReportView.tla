------------------------------ MODULE ReportView ------------------------------
(***************************************************************************)
(* StateMachineManualTest/ReportView.cpp: a list view whose leftmost       *)
(* column need not be its first one.  The control wants the leftmost       *)
(* column to be its column 0, so the view moves that one to the front when *)
(* it writes and back when it reads.  Columns and items are counted from   *)
(* 1 here, a row is the sequence of its items, and widths are left out.    *)
(***************************************************************************)
EXTENDS Integers, SequencesExt

ColumnType == {"String", "Number", "Bool"}

(* setColumns(): m_leftMostColumnIndex is the first String column, or the  *)
(* first column if there is none.                                          *)
LeftMost(columns) ==
    LET S == {i \in 1 .. Len(columns) : columns[i] = "String"}
    IN  IF S = {} THEN 1 ELSE CHOOSE i \in S : \A j \in S : i <= j

(* LVCOLUMN::iOrder: the column of the view that control column i shows.   *)
Order(leftMost, i) ==
    IF i = 1 THEN leftMost ELSE IF i <= leftMost THEN i - 1 ELSE i

(* setColumns(): the header of the control.                                *)
Header(columns) == [i \in 1 .. Len(columns) |-> columns[Order(LeftMost(columns), i)]]

(* addItems(): the row as the control holds it.  Where the leftmost column *)
(* is beyond the items, item 1 stays in front.                             *)
AddItems(columns, items) ==
    LET leftMost == LeftMost(columns)
    IN  [i \in 1 .. Len(items) |->
            items[IF i = 1 /\ leftMost > Len(items) THEN 1 ELSE Order(leftMost, i)]]

(* getItemText() of column k of the view.                                  *)
ItemText(columns, row, k) ==
    LET leftMost == LeftMost(columns)
    IN  row[IF k < leftMost THEN k + 1 ELSE IF k = leftMost THEN 1 ELSE k]

(* copy(): what the clipboard gets of a row.                               *)
Copied(columns, row) == [k \in 1 .. Len(columns) |-> ItemText(columns, row, k)]

-----------------------------------------------------------------------------
(* Wherever the leftmost column is, a full row is copied as it was added,  *)
(* and each of its items stands under the header of its own column.        *)
RowsAreCopied ==
    \A n \in 1 .. 4 : \A columns \in [1 .. n -> ColumnType] :
        LET items == [i \in 1 .. n |-> i]
            row == AddItems(columns, items)
        IN  /\ Copied(columns, row) = items
            /\ \A i \in 1 .. n : columns[row[i]] = Header(columns)[i]

=============================================================================
