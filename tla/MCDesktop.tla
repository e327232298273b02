------------------------------ MODULE MCDesktop ------------------------------
(* Small archives, and the desktop's layout at a scale of a few points.     *)
EXTENDS Desktop

Entry(name, type, size) == [name |-> name, type |-> type, size |-> size]
F(name, size) == Entry(name, "file", size)
D(name) == Entry(name, "dir", <<0, 0>>)
L(name) == Entry(name, "other", <<0, 0>>)

Ui == <<D(<<"ui", "/">>), F(<<"ui", "/", "icons">>, <<0, 3>>)>>
Hello == F(<<"hello">>, <<0, 1>>)

\* A directory, a file with the name of one of /dev, and a last file that the
\* module holds only a part of.
Cut == [entries |-> <<D(<<"ui", "/">>), F(<<"one">>, <<0, 1>>), F(<<"cut">>, <<1, 1>>)>>,
        end     |-> 22]
\* A file that was appended again, smaller.
Again == [entries |-> <<F(<<"hello">>, <<0, 5>>), Hello>>, end |-> 99]
\* A directory in a directory of the same name, and one that was appended again.
Deep == [entries |-> <<D(<<"a", "/">>), D(<<"a", "/", "a", "/">>), D(<<"a", "/">>)>>, end |-> 99]
\* A link in a directory without a header.
Links == [entries |-> Ui \o <<F(<<"ui", "/", "cursor">>, <<0, 4>>), L(<<"c", "/", "link">>)>>,
          end     |-> 99]
\* One that begins with a link, and ends with a file: no zeros follow.
LinkFirst == [entries |-> <<L(<<"link">>), Hello>>, end |-> 12]
FileFirst == [entries |-> <<F(<<"ui", "/", "icons">>, <<0, 3>>)>>, end |-> 99]
Many == [entries |-> Ui \o Ui \o Ui, end |-> 99]
\* Names with two "/" in a row: a directory without a name.
Doubled == [entries |-> <<D(<<"a", "/">>), D(<<"a", "/", "/">>), F(<<"a", "/", "/", "b">>, <<0, 1>>)>>,
            end     |-> 99]
\* As many headers as headers[] holds, and no zeros.
Filled == [entries |-> [k \in 1 .. 5 |-> L(<<"link">>)], end |-> 20]
\* A size that needs more bits than Word has, behind a link, and one that takes
\* the address beyond them.
Wide == [entries |-> <<L(<<"link">>), F(<<"big">>, <<3, 0, 0>>)>>, end |-> 99]
Round == [entries |-> <<F(<<"big">>, <<1, 6, 4>>)>>, end |-> 99]
NoModule == [entries |-> <<>>, end |-> 0]

SmallDisks == <<Cut, Deep, Links, LinkFirst, FileFirst, Many, NoModule, Again, Doubled, Filled,
                Wide, Round>>

SmallDevFiles == <<"one">>
SmallPorts == <<"com1">>

SmallScreen == [w |-> 2, h |-> 1]
SmallExplorer == [x |-> 0, y |-> 0, w |-> 1, h |-> 1]
SmallView == [w |-> 1, h |-> 0]
SmallBoxes == [edit |-> [x |-> 0, y |-> 0, w |-> 0, h |-> 0],
               btn  |-> [x |-> 0, y |-> 0, w |-> 1, h |-> 0],
               fn   |-> [x |-> 0, y |-> 0, w |-> 1, h |-> 1]]

=============================================================================
