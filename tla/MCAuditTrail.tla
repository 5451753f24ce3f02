----------------------------- MODULE MCAuditTrail -----------------------------
(* Months of three, two and four days: the next month may lack a day, and so *)
(* may the month in which the retention ends.                              *)
EXTENDS AuditTrail
MonthLengths == <<3, 2, 4>>
===============================================================================
