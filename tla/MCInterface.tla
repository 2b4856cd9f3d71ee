---------------------------- MODULE MCInterface ----------------------------
EXTENDS Interface

Property(n, mod, sort, enum) == [name |-> n, mod |-> mod, sort |-> sort, enum |-> enum]
Class(first, second) ==
  [props |-> <<first, second>>,
   signals |-> <<[name |-> "pair", arity |-> 2], [name |-> "plain", arity |-> 0]>>,
   slots |-> <<"act">>]

\* Two values: the second is of an enum's type, so that both sorts of push slots occur
ValueClasses ==
  {Class(Property("p", m, "value", FALSE), Property("q", n, "value", TRUE)) :
     m \in Modifiers, n \in {"Constant", "ReadPush", "ReadWrite"}}
\* A value before a pointer
PointerClasses ==
  {Class(Property("p", m, "value", FALSE), Property("q", "SourceOnlySetter", "class", FALSE)) :
     m \in {"Constant", "ReadPush"}}

Plain(n, sort, notify) ==
  [name |-> <<"property", n>>, sort |-> sort, write |-> TRUE, fixed |-> FALSE, notify |-> notify]
\* Properties without and with a signal of their own, and two with one signal, a
\* signal with a default argument, and notify signals after another one
PlainValues ==
  [props   |-> <<Plain("silent", "value", None), Plain("p", "value", <<"signal", "both">>),
                 Plain("q", "value", <<"signal", "both">>),
                 Plain("r", "value", <<"signal", "rChanged">>)>>,
   methods |-> <<Signal(<<"signal", "pair">>, 2, FALSE, FALSE),
                 Signal(<<"clone", "pair">>, 1, FALSE, TRUE),
                 Signal(<<"signal", "rChanged">>, 1, FALSE, FALSE),
                 Signal(<<"signal", "both">>, 0, FALSE, FALSE),
                 Slot(<<"slot", "act">>), Slot(<<"slot", "other">>)>>]
PlainPointer ==
  [props   |-> <<Plain("silent", "value", None), Plain("q", "class", <<"signal", "qChanged">>)>>,
   methods |-> <<Signal(<<"signal", "pair">>, 2, FALSE, FALSE),
                 Signal(<<"signal", "qChanged">>, 1, TRUE, FALSE),
                 Slot(<<"slot", "act">>)>>]

Design(class, pub, acq, base, crowd, renamed) ==
  [class |-> class, pub |-> pub, acq |-> acq, base |-> base, crowd |-> crowd,
   renamed |-> renamed]

MCDesigns ==
  {Design(c, pub, acq, base, FALSE, FALSE) : c \in ValueClasses,
     pub \in {"repc"}, acq \in {"static", "dynamic", "inprocess"}, base \in BOOLEAN}
  \cup {Design(c, "derived", acq, FALSE, FALSE, FALSE) : c \in ValueClasses,
          acq \in {"static", "dynamic"}}
  \cup {Design(c, pub, "static", FALSE, crowd, renamed) : c \in PointerClasses,
          pub \in {"repc", "derived"}, crowd \in BOOLEAN, renamed \in BOOLEAN}
  \cup {Design(c, pub, "dynamic", FALSE, crowd, FALSE) : c \in PointerClasses,
          pub \in {"repc", "derived"}, crowd \in BOOLEAN}
  \cup {Design(c, "plain", "dynamic", base, crowd, FALSE) : c \in {PlainValues, PlainPointer},
          base \in BOOLEAN, crowd \in BOOLEAN}
=============================================================================
