----------------------------- MODULE MCServices -----------------------------
(***************************************************************************)
(* A small instance of every component of Services.                        *)
(***************************************************************************)
EXTENDS Services, TLC

\* What acts - webhooks, administrators, requests, writers - is one set of model
\* values, and so are tabs and bank details, employees and ids of devices.
MCSymmetry == Permutations(Hook) \cup Permutations(Tab) \cup Permutations(Employee)

\* Two plans and two modules of the real table: one module in both plans, one
\* in the larger plan only.
MCPlan == {"STARTER", "PRO"}
MCModule == {"WORKFORCE", "FORMS"}
MCDefaults ==
  [p \in MCPlan |-> IF p = "PRO" THEN {"WORKFORCE", "FORMS"} ELSE {"WORKFORCE"}]

\* What the model may read from a photo: one or two sections, of every kind that
\* the repair of a livestock form tells apart.
Section(title, fields, columns) == [title |-> title, fields |-> fields, columns |-> columns]
Labels(n) ==
  UNION {[1..k -> {"date", "date record review", "initials", "other"}] : k \in 0..n}
MCInput ==
  {<<Section(t, f, c)>> : t \in {"none", "verification"}, f \in Labels(3),
                          c \in {<<>>, <<"date">>}}
  \cup
  {<<Section(t, f, c), s>> :
     t \in {"none", "verification", "deviation", "titled"},
     f \in Labels(4) \cup {<<"name", "other">>, <<"date 1", "date", "date">>},
     c \in {<<>>, <<"date">>, <<"species", "other", "date">>},
     s \in {Section("none", <<"date", "date">>, <<>>), Section("titled", <<"name">>, <<>>)}}
MCMonitoring == <<"date", "species", "other">>
MCDeviations == <<"date", "deviation">>
MCVF == <<"date record review", "initials", "date onsite", "initials">>
MCVC == <<"date", "deviation", "initials">>
=============================================================================
