----------------------------- MODULE ApiErrors -----------------------------
(***************************************************************************)
(* The errors of dp-topic-api and the statuses they are answered with.     *)
(***************************************************************************)

(* api/api.go, handleError: the HTTP status of an error.  "StoreError" is  *)
(* any error of the MongoDB driver, which falls to the default branch.     *)

handleError ==
  [ ErrTopicNotFound        |-> 404,
    ErrContentNotFound      |-> 404,
    ErrNotFound             |-> 404,
    ErrUnableToReadMessage  |-> 500,
    ErrEmptyRequestBody     |-> 400,
    ErrInvalidReleaseDate   |-> 400,
    ErrTopicInvalidState    |-> 400,
    ErrTopicMissingFields   |-> 400,
    ErrContentUnrecognisedParameter |-> 400,
    ErrTopicStateTransitionNotAllowed |-> 403,
    ErrInternalServer       |-> 500,
    StoreError              |-> 500 ]

Statuses == {200, 400, 403, 404, 500}

=============================================================================
