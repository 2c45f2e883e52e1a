------------------------------ MODULE Validators ------------------------------
(* One call of a validator after its object was made: on a text, an address,  *)
(* a file, or a field of a form.                                              *)
EXTENDS TextValidators, AddressValidators, FieldValidators

Init == Idle
Next == Waiting /\ (AskText \/ AskAddress \/ AskField)
Spec == Init /\ [][Next]_calls

-------------------------------------------------------------------------------
(* What a validator has made of a text passes it again unchanged; alone or in *)
(* a list, a text shown in a form is read back from it.                       *)
CleanedSettles == ListsRoundTrip /\ EmailsSurvive /\ SlugsSettle /\ CleaningSettles /\ UrlsSettle /\ AcceptedTwice /\ WrappedSettle

(* A time that is shown in a form and submitted as it is shown is the same    *)
(* time: dates, moments in a time zone, hours of the day.                     *)
ShownIsReadBack == DatesRoundTrip /\ DatetimeRoundTrip /\ HoursNamedOnce

(* A stored password is told from any other and outlives a form that shows    *)
(* it; a stronger one is no less accepted.                                    *)
PasswordsTell == LessIsAccepted /\ EntropyGrows /\ LogInTells /\ ShownPasswordIsKept

(* What is accepted is what was asked for: an address of the family and range,*)
(* a file of the kind, a value that is not null, in no other row, or in the   *)
(* table referred to.                                                         *)
AcceptedAsAsked ==
    /\ FamilyTells /\ RangesTell /\ FilesHaveExtensions /\ ImagesAreWhatTheyClaim
    /\ NotNullMeansNotNull /\ UniqueAmongRows /\ ReferencesExist
===============================================================================
