----------------------- MODULE MCModeratorAvailability -----------------------
EXTENDS ModeratorAvailability

Row(k, t, from, to) == [id |-> k, table |-> t, from |-> from, to |-> to]

NoInterview == {}
LateInterview == {[from |-> 8, to |-> 9]}
SoonInterview == {[from |-> 0 - 2, to |-> 0 - 1], [from |-> 4, to |-> 5]}
TwoInterviews == {[from |-> 1, to |-> 2], [from |-> 7, to |-> 8]}

With(b, sets) == {[rows |-> s, buffer |-> b] : s \in sets}

Clear(b, r) == \A i \in Interview : ~Intrudes(r, i, b)

\* Half an hour, the buffer of the runs over posts.
HalfHour == 2

\* No row, or three that do not touch, away from the interviews.
Apart ==
  With(HalfHour,
    {{}} \cup
    {rs \in {{Row(1, "manual", a, b), Row(2, "manual", c, d), Row(3, "manual", e, f)} :
                <<a, b, c, d, e, f>> \in {t \in Times \X Times \X Times \X Times \X Times \X Times :
                                            \A k \in 1 .. 5 : t[k] < t[k + 1]}} :
       \A r \in rs : Clear(HalfHour, r)})

OneRow == With(DefaultBuffer, {{Row(1, "manual", 0, 2)}})

\* Or two, the first with an imported row around, across or within it.
ApartOrImported ==
  Apart \cup
  With(HalfHour,
    {{Row(1, "manual", 1, 3), Row(2, "manual", 5, 6), Row(3, "imported", t[1], t[2])} :
       t \in {<<0, 4>>, <<2, 4>>, <<1, 2>>}})

\* One manual and one imported row.
BothTables == With(DefaultBuffer, {{Row(1, "manual", 0, 1), Row(2, "imported", 0, 2)}})

\* None, or two rows, the second of either table, that keep the buffer from
\* interviews.
BetweenInterviews ==
  With(DefaultBuffer, {{}}) \cup UNION {With(b, {{Row(1, "manual", p[1].from, p[1].to), Row(2, t, p[2].from, p[2].to)} :
                    t \in Tables,
                    p \in {q \in TimeRange \X TimeRange :
                             Clear(b, q[1]) /\ Clear(b, q[2]) /\ q[1].to < q[2].from}}) : b \in Buffers}

NoCells == {}
TwoBlocks == {0, 2}
=============================================================================
