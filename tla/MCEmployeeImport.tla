-------------------------- MODULE MCEmployeeImport --------------------------
EXTENDS EmployeeImport, TLC

CONSTANTS n1, n2, mailA, mailB, hr, c1, c2

Old == [status |-> "active", recorded |-> "active", email |-> mailA, account |-> None,
        phone |-> "plain", manager |-> None, family |-> 0, banks |-> {"plain"},
        assigned |-> FALSE]
MCInitial == n1 :> Old

Plain(n, mail) == [number |-> n, status |-> "active", email |-> mail, phone |-> "",
                   manager |-> None, valid |-> TRUE]
Book(rows, named) == [readable |-> TRUE, rows |-> rows, bank |-> {},
                      family |-> [n \in Numbers |-> Cardinality({i \in DOMAIN named : named[i] = n})]]

\* A new address, a relative named twice and a new employee under a manager; an
\* inactive employee, or a deactivation, with a relative and the address of
\* another employee or account; a relative of nobody.
MCWorkbooks ==
    {Book(<<Plain(n1, mailB), [Plain(n2, None) EXCEPT !.status = "", !.manager = n1]>>, <<n1, n1>>),
     Book(<<[Plain(n2, mailA) EXCEPT !.status = "inactive"]>>, <<n2>>),
     Book(<<Plain(n1, mailA)>>, <<n2>>)}
MCLists == {{Plain(n2, mailB)}}
MCRights == hr :> {"personal"}
Interchangeable == Permutations({c1, c2})
=============================================================================
