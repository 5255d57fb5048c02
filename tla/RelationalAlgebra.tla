-------------------------- MODULE RelationalAlgebra --------------------------
(* The relational algebra lesson: four operators on two small relations,    *)
(* one step for each row or pair of rows looked at.                         *)
EXTENDS Integers, Sequences, FiniteSets, SequencesExt

CONSTANT Null

VARIABLE page
Lesson == INSTANCE StepPlayer

Emp(id, dept, salary) == [id |-> id, dept |-> dept, salary |-> salary]
Employees == <<Emp(101, "D01", 75000), Emp(102, "D02", 62000), Emp(103, "D01", 89000),
               Emp(104, "D03", 54000), Emp(105, Null, 68000)>>
Departments == <<"D01", "D02", "D04">>
Opening == [left |-> 0, right |-> 0, rows |-> <<>>]

(* ---------------------------- generateSteps ---------------------------- *)

(* A step for each employee; `Emitted' gives the rows it adds.             *)
PerEmployee(Emitted(_)) ==
    FoldLeft(LAMBDA steps, i : Append(steps, [left |-> i, right |-> 0, rows |-> Last(steps).rows \o Emitted(Employees[i])]),
             <<Opening>>, [i \in DOMAIN Employees |-> i])

Selection == PerEmployee(LAMBDA e : IF e.salary > 65000 THEN <<e>> ELSE <<>>)
Projection == PerEmployee(LAMBDA e : <<[id |-> e.id, salary |-> e.salary]>>)

Joined(e, d) == [id |-> e.id, dept |-> e.dept, of |-> d]
Matches(e, d) == e.dept # Null /\ e.dept = d

(* Slip: an employee without a department matches none and is dropped.     *)
LeftJoinDropping == PerEmployee(LAMBDA e :
    LET matched == SelectSeq(Departments, LAMBDA d : Matches(e, d))
    IN [i \in DOMAIN matched |-> Joined(e, matched[i])])

LeftJoin == PerEmployee(LAMBDA e :
    LET matched == SelectSeq(Departments, LAMBDA d : Matches(e, d))
    IN IF matched = <<>> THEN <<Joined(e, Null)>> ELSE [i \in DOMAIN matched |-> Joined(e, matched[i])])

(* A step for each pair, employee by employee.                             *)
InnerJoin ==
    LET width == Len(Departments)
        pair(steps, n) ==
            LET i == 1 + (n - 1) \div width
                k == 1 + ((n - 1) % width)
                e == Employees[i]
                add == IF Matches(e, Departments[k]) THEN <<Joined(e, Departments[k])>> ELSE <<>>
            IN Append(steps, [left |-> i, right |-> k, rows |-> Last(steps).rows \o add])
    IN FoldLeft(pair, <<Opening>>, [n \in 1..Len(Employees) * width |-> n])

(* The operations the page offers; any other is a single opening step.     *)
Operations == {"selection", "projection", "inner-join", "left-join"}
GenerateSteps(op) == CASE op = "selection" -> Selection
                       [] op = "projection" -> Projection
                       [] op = "inner-join" -> InnerJoin
                       [] op = "left-join" -> LeftJoin
                       [] OTHER -> <<Opening>>

(* ------------------------------- the page ------------------------------ *)

Init == page = Lesson!LessonOpened("selection", GenerateSteps("selection"), {"onNext", "onPrev", "onReset"})
HandleOperationChange == \E op \in Operations : page' = Lesson!Chosen(op, GenerateSteps(op))
ControlBar == Lesson!StepBar
Gesture == HandleOperationChange \/ ControlBar

(* A reader who presses Step again and again, as the page says to.         *)
Reader == Init /\ [][Lesson!PressStep]_page /\ WF_page(Lesson!PressStep)

(* Step n of m, and whether the evaluation is over.                        *)
Status == IF page.index = Len(page.steps) THEN "COMPLETED" ELSE "EVALUATING"

(* ------------------------------ properties ----------------------------- *)

Result == ToSet(Last(page.steps).rows)
Pairs == {p \in ToSet(Employees) \X ToSet(Departments) : p[1].dept = p[2]}

(* The last step holds the relation the operator defines, without double   *)
(* rows, and no step takes back what an earlier one emitted.               *)
EngineIsSound ==
    /\ CASE page.choice = "selection" -> Result = {e \in ToSet(Employees) : e.salary > 65000}
         [] page.choice = "projection" -> Cardinality(Result) = Len(Employees)
         [] page.choice = "inner-join" -> Result = {Joined(p[1], p[2]) : p \in Pairs}
         [] OTHER -> Result = {Joined(p[1], p[2]) : p \in Pairs}
                              \cup {Joined(e, Null) : e \in {e \in ToSet(Employees) : \A p \in Pairs : p[1] # e}}
    /\ Cardinality(Result) = Len(Last(page.steps).rows)
    /\ \A i \in 2..Len(page.steps) : IsPrefix(page.steps[i - 1].rows, page.steps[i].rows)

(* Completed means all employees were looked at.                           *)
ShownIsSound == Status = "COMPLETED" => Lesson!StepData.left = Len(Employees)

(* "No result tuples emitted yet in this step. Step through the simulation *)
(* to observe evaluation": whoever keeps stepping sees tuples emitted.     *)
SteppingShowsTuples == <>(Lesson!StepData.rows # <<>>)
==============================================================================
