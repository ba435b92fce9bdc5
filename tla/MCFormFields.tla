---- MODULE MCFormFields ----
\* Three pages: two forms that share a radio name; every kind of control in a
\* form that is posted; controls without a name or outside every form.
EXTENDS FormFields

Field(kind, form, name, value, checked) ==
    [kind |-> kind, form |-> form, name |-> name, value |-> value,
     checked |-> checked, options |-> <<>>]
Choice(kind, form, name, options) ==
    [Field(kind, form, name, 0, FALSE) EXCEPT !.options = options]
Opt(value, selected) == [value |-> value, selected |-> selected]

TwoForms ==
    [controls |-> << Field("radio", 1, 7, 1, TRUE), Field("radio", 1, 7, 2, TRUE),
                     Field("checkbox", 1, 8, 0, FALSE), Field("reset", 1, None, 0, FALSE),
                     Field("radio", 2, 7, 1, FALSE), Field("radio", 2, 7, 2, TRUE),
                     Field("text", 2, 8, 1, FALSE), Field("submit", 2, 9, 1, FALSE) >>,
     posts |-> {}]

EveryKind ==
    [controls |-> << Field("hidden", 1, 6, 2, FALSE), Field("password", 1, 7, 0, FALSE),
                     Field("textarea", 1, 8, 1, FALSE),
                     Choice("select", 1, 9, <<Opt(1, FALSE), Opt(2, TRUE), Opt(3, FALSE)>>),
                     Choice("multiselect", 1, 9, <<Opt(1, TRUE), Opt(2, FALSE), Opt(1, FALSE)>>),
                     Field("submit", 1, None, 0, FALSE), Field("reset", 1, None, 0, FALSE) >>,
     posts |-> {1}]

Odd ==
    [controls |-> << Field("textarea", None, 7, 1, FALSE), Field("checkbox", None, 7, 0, TRUE),
                     Field("radio", 1, None, 0, FALSE), Field("checkbox", 1, None, 0, TRUE),
                     Choice("select", 1, 9, <<>>), Field("submit", 1, 9, 1, FALSE) >>,
     posts |-> {}]

MCPages == {TwoForms, EveryKind, Odd}
====
